---- MODULE Spec2Model ----
(***************************************************************************)
(* DataProcessor (src/data_utils.py): the technical-indicator pipeline and *)
(* the pattern detector, as pure functions of a caller-owned bar list.     *)
(*                                                                         *)
(* Numbers.  The code computes in IEEE doubles through pandas.  The model  *)
(* computes in exact rationals extended with the IEEE specials the code    *)
(* can produce, so a value is a pair <<n, d>>:                             *)
(*     d > 0           the rational n/d in lowest terms                    *)
(*     <<0, 0>>        NaN, pandas' "undefined"                            *)
(*     <<1, 0>>        +infinity        <<-1, 0>>   -infinity              *)
(*     <<0, -1>>       Wide: a finite number that is not tracked, because  *)
(*                     it comes from a fraction wider than MaxNum          *)
(* Arithmetic is exact on fractions whose numerator and denominator are at *)
(* most MaxNum, so that no product leaves the checker's 32-bit integers;   *)
(* it gives Wide on wider ones.  Only the exponentially weighted columns   *)
(* get that wide.  Rounding error of the doubles is not modelled.          *)
(***************************************************************************)
EXTENDS Integers, Sequences, FiniteSets, TLC

VARIABLES
    data,        \* the caller's list of OHLCV bars
    ind_ret,     \* what calculate_technical_indicators last returned
    pat_ret,     \* what detect_patterns last returned
    holdings,    \* the caller's list of holdings
    port_ret,    \* what calculate_portfolio_metrics last returned
    amount,      \* the amount handed to format_currency
    currency,    \* the currency code handed to format_currency
    fmt_ret,     \* what format_currency last returned
    hist_req,    \* a get_historical_data request and the provider's answer to it
    hist_ret,    \* how get_historical_data ended
    symbols,         \* the symbol list handed to the real-time stream
    stream_exchange, \* 'NSE' or 'BSE': which of the two streams runs
    stream_pc,       \* "init": the initialisation loop, "loop": the while loop
    stream_pos,      \* the position in symbols of the symbol to handle next
    cache,           \* symbol -> base price
    cache_expiry,    \* symbol -> seconds left before the entry expires
    last_api_call,   \* symbol -> seconds since the recorded provider call
    current_delay,   \* the back-off delay
    yielded,         \* the tick the last step yielded, or None
    event,           \* what the last step did, and for which symbol
    slept,           \* the seconds the last step slept
    call_age,        \* symbol -> seconds since the provider was last called
    call_gap,        \* <<seconds>> between the last provider call and the
                     \* one before it for the same symbol, <<>> if none
    dl_req,          \* the arguments of download_stock_data
    dl_pc,           \* "idle", "fetching" (in the retry loop) or "done"
    retry,           \* the loop variable of the retry loop
    provider_calls,  \* how many times ticker.history() was called
    answers,         \* what the provider answered, call by call
    waited,          \* the seconds slept between the calls
    dl_ret,          \* how download_stock_data ended
    saved,           \* the files written
    cache_files,     \* the .cache_*.json files: name -> age in hours, data
    info_req,        \* the arguments of the last get_symbol_info
    info_ret,        \* how the last get_symbol_info ended
    info_answers,    \* what the provider answered in it, call by call
    info_op          \* the last operation: "info", "clear", "time" or "none"

\* the variables of DataProcessor and those of MarketDataFetcher
processorVars ==
    <<data, ind_ret, pat_ret, holdings, port_ret, amount, currency, fmt_ret>>
histVars == <<hist_req, hist_ret>>
streamVars ==
    <<symbols, stream_exchange, stream_pc, stream_pos, cache, cache_expiry,
      last_api_call, current_delay, yielded, event, slept, call_age, call_gap>>
downloadVars ==
    <<dl_req, dl_pc, retry, provider_calls, answers, waited, dl_ret, saved>>
infoVars == <<cache_files, info_req, info_ret, info_answers, info_op>>
fetcherVars == <<histVars, streamVars, downloadVars, infoVars>>
vars == <<processorVars, fetcherVars>>

(***************************************************************************)
(* Bounds of the model.                                                    *)
(***************************************************************************)
\* longest run of identical bars put before or after the free bars
MaxPad == 18
\* number of freely chosen bars in a series
MaxFree == 3
\* widest numerator and denominator the arithmetic takes
MaxNum == 30000
\* closes the free bars are drawn from
Closes == {0, 1, 2}
\* longest list of holdings
MaxHoldings == 3
\* what a holding is drawn from
Symbols == {"A", "B"}
Quantities == {1, 2}
Prices == {0, 1, 3}
\* amounts to format: the multiples of AmountStep up to MaxSteps of them
MaxSteps == 30
AmountStep == 1234567
\* currency codes
Currencies == {"INR", "USD", "EUR"}
\* most rows in a provider's answer
MaxRows == 2
\* what a request and a provider row are drawn from
Tickers == {"A", "B"}
Exchanges == {"NSE", "BSE", "nse", "LSE"}
ProviderPrices == {<<1001, 1000>>, <<1003, 500>>}
ProviderVolumes == {0, 5}
\* longest symbol list of a real-time stream
MaxSymbols == 3
\* what the provider and the random generator answer in a real-time stream
StreamPrices == {<<0, 1>>, <<250, 1>>, <<0, 0>>}
PriceChanges == {<<-1, 2>>, <<1, 2>>}
TickVolumes == {1000}
ErrorMessages == {"Too Many Requests", "HTTP Error 429", "Connection reset"}
\* what download_stock_data is asked to do with the table
FileFormats == {"csv", "excel"}
\* the requests of get_symbol_info, the names the provider knows a company
\* by, and the hours that pass between two operations
InfoPairs == {<<"A", "NSE">>, <<"A", "BSE">>, <<"B", "NSE">>}
LongNames == {"Acme"}
HoursPassing == {8}

(***************************************************************************)
(* Number domain.                                                          *)
(***************************************************************************)
NaN == <<0, 0>>
PosInf == <<1, 0>>
NegInf == <<-1, 0>>
Wide == <<0, -1>>

Abs(n) == IF n < 0 THEN -n ELSE n

Sgn(n) == IF n < 0 THEN -1 ELSE IF n > 0 THEN 1 ELSE 0

RECURSIVE Gcd(_, _)
Gcd(a, b) == IF b = 0 THEN a ELSE Gcd(b, a % b)

\* the rational n/d, d # 0, in lowest terms with a positive denominator
Rat(n, d) ==
    LET g == Gcd(Abs(n), Abs(d))
        s == IF d < 0 THEN -1 ELSE 1
    IN  <<s * (n \div g), s * (d \div g)>>

Num(n) == <<n, 1>>

IsNaN(x) == x = NaN
IsInf(x) == x[2] = 0 /\ x[1] # 0
IsRat(x) == x[2] > 0
\* a finite number the arithmetic cannot take exactly
IsWide(x) == x = Wide \/ (IsRat(x) /\ (Abs(x[1]) > MaxNum \/ x[2] > MaxNum))
\* defined and finite
IsFinite(x) == x = Wide \/ IsRat(x)
IsZero(x) == IsRat(x) /\ x[1] = 0

Neg(x) == IF x = Wide THEN Wide ELSE <<-x[1], x[2]>>

\* abs(x) of a rational x
AbsNum(x) == <<Abs(x[1]), x[2]>>

Add(x, y) ==
    IF IsNaN(x) \/ IsNaN(y) THEN NaN
    ELSE IF IsInf(x) /\ IsInf(y) THEN (IF x = y THEN x ELSE NaN)
    ELSE IF IsInf(x) THEN x
    ELSE IF IsInf(y) THEN y
    ELSE IF IsWide(x) \/ IsWide(y) THEN Wide
    ELSE IF x[2] = 1 /\ y[2] = 1 THEN <<x[1] + y[1], 1>>
    ELSE LET g == Gcd(x[2], y[2])
         IN  Rat(x[1] * (y[2] \div g) + y[1] * (x[2] \div g), (x[2] \div g) * y[2])

Sub(x, y) == Add(x, Neg(y))

Mul(x, y) ==
    IF IsNaN(x) \/ IsNaN(y) THEN NaN
    ELSE IF IsInf(x) \/ IsInf(y)
         THEN (IF IsZero(x) \/ IsZero(y) THEN NaN
               ELSE IF IsWide(x) \/ IsWide(y) THEN Wide
               ELSE <<Sgn(x[1]) * Sgn(y[1]), 0>>)
    ELSE IF IsWide(x) \/ IsWide(y) THEN Wide
    ELSE IF x[2] = 1 /\ y[2] = 1 THEN <<x[1] * y[1], 1>>
    ELSE LET g1 == Gcd(Abs(x[1]), y[2])
             g2 == Gcd(Abs(y[1]), x[2])
         IN  Rat((x[1] \div g1) * (y[1] \div g2), (x[2] \div g2) * (y[2] \div g1))

\* IEEE division: x/0 is an infinity of x's sign, 0/0 and inf/inf are NaN
Div(x, y) ==
    IF IsNaN(x) \/ IsNaN(y) THEN NaN
    ELSE IF IsInf(y) THEN (IF IsInf(x) THEN NaN ELSE Num(0))
    ELSE IF IsWide(x) \/ IsWide(y) THEN Wide
    ELSE IF IsZero(y)
         THEN (IF IsZero(x) THEN NaN ELSE <<Sgn(x[1]), 0>>)
    ELSE IF IsInf(x) THEN <<Sgn(x[1]) * Sgn(y[1]), 0>>
    ELSE Mul(x, Rat(y[2], y[1]))

\* x > y as pandas compares: False as soon as one side is NaN
Gt(x, y) ==
    /\ ~IsNaN(x)
    /\ ~IsNaN(y)
    /\ LET dd == Sub(x, y) IN ~IsNaN(dd) /\ dd[1] > 0

Lt(x, y) == Gt(y, x)

(***************************************************************************)
(* Series helpers.  Python index i is TLA+ index i + 1.                    *)
(***************************************************************************)
\* F(v) with v evaluated once, before F looks at it
Force(v, F(_)) == CHOOSE r \in {F(x) : x \in {v}} : TRUE

RECURSIVE SumRange(_, _, _)
SumRange(xs, a, b) == IF a > b THEN Num(0) ELSE Add(xs[a], SumRange(xs, a + 1, b))

SumSeq(xs) == SumRange(xs, 1, Len(xs))

\* the window of `window` values ending at TLA+ index k (k >= window)
WindowAt(xs, window, k) == SubSeq(xs, k - window + 1, k)

HasNaN(xs) == \E k \in 1..Len(xs) : IsNaN(xs[k])

(***************************************************************************)
(* The pandas operations the code calls, on a column of numbers.           *)
(***************************************************************************)
\* Series.shift(1)
Shift(xs) == [k \in 1..Len(xs) |-> IF k = 1 THEN NaN ELSE xs[k - 1]]

\* Series.diff()
Diff(col) ==
    Force(col, LAMBDA xs : [k \in 1..Len(xs) |-> Sub(xs[k], Shift(xs)[k])])

\* Series.pct_change(): data / data.shift(1) - 1
PctChange(col) ==
    Force(col, LAMBDA xs :
        [k \in 1..Len(xs) |-> Sub(Div(xs[k], Shift(xs)[k]), Num(1))])

\* Series.rolling(window).agg(): min_periods defaults to the window, so a
\* value needs `window` observations, none of them NaN
Rolling(col, window, Agg(_)) ==
    Force(col, LAMBDA xs :
        [k \in 1..Len(xs) |->
            IF k < window \/ HasNaN(WindowAt(xs, window, k)) THEN NaN
            ELSE Agg(WindowAt(xs, window, k))])

Mean(w) == Div(SumSeq(w), Num(Len(w)))

\* mutant: rolling(window, min_periods=1).mean()
RollingMean_min_periods_1(col, window) ==
    Force(col, LAMBDA xs :
        [k \in 1..Len(xs) |->
            Mean(WindowAt(xs, IF k < window THEN k ELSE window, k))])

\* Series.rolling(window).mean()
RollingMean(col, window) == Rolling(col, window, Mean)

SumOfSquares(xs) == SumSeq([k \in 1..Len(xs) |-> Mul(xs[k], xs[k])])

\* mutant: the variance with ddof=0
Var_ddof_0(w) ==
    LET total == SumSeq(w)
        ssqdm == Sub(SumOfSquares(w), Div(Mul(total, total), Num(Len(w))))
    IN  Div(ssqdm, Num(Len(w)))

\* the variance under Series.std(): ddof defaults to 1, so the squared
\* deviations from the mean are divided by one less than their number.
\* Their sum is taken as sum(x^2) - sum(x)^2 / n.
Var(w) ==
    LET total == SumSeq(w)
        ssqdm == Sub(SumOfSquares(w), Div(Mul(total, total), Num(Len(w))))
    IN  Div(ssqdm, Num(Len(w) - 1))

RollingVar(col, window) == Rolling(col, window, Var)

\* A square root is kept unevaluated: [base, k, rad] is base + k*sqrt(rad),
\* rad >= 0, and UndefSurd stands for NaN.
UndefSurd == [base |-> NaN, k |-> 0, rad |-> NaN]
Surd(base, k, rad) ==
    IF IsNaN(base) \/ IsNaN(rad) THEN UndefSurd
    ELSE [base |-> base, k |-> k, rad |-> rad]

\* Series.rolling(window).std()
RollingStd(col, window) ==
    Force(RollingVar(col, window), LAMBDA var :
        [k \in 1..Len(var) |-> Surd(Num(0), 1, var[k])])

\* sma + (std * std_dev), sma - (std * std_dev)
PlusStd(sma, std, std_dev) ==
    [k \in 1..Len(sma) |-> Surd(sma[k], std[k].k * std_dev, std[k].rad)]
\* mutant: the lower band with the sign of the upper one
MinusStd_plus(sma, std, std_dev) ==
    [k \in 1..Len(sma) |-> Surd(sma[k], std[k].k * std_dev, std[k].rad)]

MinusStd(sma, std, std_dev) ==
    [k \in 1..Len(sma) |-> Surd(sma[k], -(std[k].k * std_dev), std[k].rad)]

\* mutant: one turn of the loop for adjust=False
EwmStep_adjust_False(state, cur, span) ==
    LET alpha == Rat(2, span + 1)
        old_wt_factor == Sub(Num(1), alpha)
        new_wt == alpha
        old_wt == Mul(state[2], old_wt_factor)
        weighted == Div(Add(Mul(old_wt, state[1]), Mul(new_wt, cur)),
                        Add(old_wt, new_wt))
    IN  <<weighted, Num(1)>>

\* Series.ewm(span).mean() is pandas' loop for adjust=True (the default) on
\* a column without NaN, with alpha = 2/(span+1).  One turn of the loop
\* takes <<weighted, old_wt>> and the current value to the next pair.
EwmStep(state, cur, span) ==
    LET alpha == Rat(2, span + 1)
        old_wt_factor == Sub(Num(1), alpha)
        new_wt == Num(1)
        old_wt == Mul(state[2], old_wt_factor)
        weighted == Div(Add(Mul(old_wt, state[1]), Mul(new_wt, cur)),
                        Add(old_wt, new_wt))
    IN  <<weighted, Add(old_wt, new_wt)>>

\* the pairs the loop holds after each of the first k values
RECURSIVE EwmLoop(_, _, _)
EwmLoop(xs, span, k) ==
    IF k = 1 THEN << <<xs[1], Num(1)>> >>
    ELSE Force(EwmLoop(xs, span, k - 1), LAMBDA done :
            Append(done, Force(done[k - 1], LAMBDA state : EwmStep(state, xs[k], span))))

EwmMean(col, span) ==
    Force(col, LAMBDA xs :
        IF xs = <<>> THEN <<>>
        ELSE Force(EwmLoop(xs, span, Len(xs)), LAMBDA states :
                [k \in 1..Len(xs) |-> states[k][1]]))

\* Series.where(cond, other) against the scalar 0, for the two conditions
\* _calculate_rsi uses
WherePositive(xs, other) ==
    [k \in 1..Len(xs) |-> IF Gt(xs[k], Num(0)) THEN xs[k] ELSE other]
WhereNegative(xs, other) ==
    [k \in 1..Len(xs) |-> IF Lt(xs[k], Num(0)) THEN xs[k] ELSE other]

\* mutant: the subtraction with its operands exchanged
ColSub_swapped(xs, ys) == [k \in 1..Len(xs) |-> Sub(ys[k], xs[k])]

ColSub(xs, ys) == [k \in 1..Len(xs) |-> Sub(xs[k], ys[k])]

\* mutant: the losses left negative
ColNeg_kept(xs) == xs

ColNeg(xs) == [k \in 1..Len(xs) |-> Neg(xs[k])]

\* pd.DataFrame(data): the frame as a record of columns holding the bars'
\* own values
InputColumns == {"timestamp", "open", "high", "low", "close", "volume"}
DataFrame(rows) == [f \in InputColumns |-> [k \in 1..Len(rows) |-> rows[k][f]]]

\* an integer column as the numbers pandas computes with
Numbers(column) == [k \in 1..Len(column) |-> Num(column[k])]

\* mutant: the records last row first
ToRecords_reversed(frame, n) ==
    Force(frame, LAMBDA df : [k \in 1..n |-> [f \in DOMAIN df |-> df[f][n + 1 - k]]])

\* df.to_dict('records') of a frame of n rows
ToRecords(frame, n) ==
    Force(frame, LAMBDA df : [k \in 1..n |-> [f \in DOMAIN df |-> df[f][k]]])

(***************************************************************************)
(* DataProcessor                                                           *)
(***************************************************************************)
RsiPeriod == 14
BbPeriod == 20
BbStdDev == 2

_calculate_rsi(prices, period) ==
    Force(Diff(prices), LAMBDA delta :
        Force(<<RollingMean(WherePositive(delta, Num(0)), period),
                RollingMean(ColNeg(WhereNegative(delta, Num(0))), period)>>,
              LAMBDA gl :
                [k \in 1..Len(delta) |->
                    LET gain == gl[1][k]
                        loss == gl[2][k]
                        rs == Div(gain, loss)
                    IN  Sub(Num(100), Div(Num(100), Add(Num(1), rs)))]))

_calculate_bollinger_bands(prices, period, std_dev) ==
    Force(<<RollingMean(prices, period), RollingStd(prices, period)>>,
          LAMBDA c :
            LET sma == c[1]
                std == c[2]
            IN  [upper |-> PlusStd(sma, std, std_dev),
                 middle |-> sma,
                 lower |-> MinusStd(sma, std, std_dev)])

calculate_technical_indicators(rows) ==
    IF rows = <<>> THEN rows
    ELSE LET df == DataFrame(rows)
             close == Numbers(df["close"])
             ema_12 == EwmMean(close, 12)
             ema_26 == EwmMean(close, 26)
             macd == ColSub(ema_12, ema_26)
             macd_signal == EwmMean(macd, 9)
             bb_data == _calculate_bollinger_bands(close, BbPeriod, BbStdDev)
             out == [f \in InputColumns |-> df[f]] @@
                    [sma_5 |-> RollingMean(close, 5),
                     sma_10 |-> RollingMean(close, 10),
                     sma_20 |-> RollingMean(close, 20),
                     ema_12 |-> ema_12,
                     ema_26 |-> ema_26,
                     macd |-> macd,
                     macd_signal |-> macd_signal,
                     macd_histogram |-> ColSub(macd, macd_signal),
                     rsi |-> _calculate_rsi(close, RsiPeriod),
                     bb_upper |-> bb_data.upper,
                     bb_middle |-> bb_data.middle,
                     bb_lower |-> bb_data.lower,
                     volume_sma |-> RollingMean(Numbers(df["volume"]), 10),
                     price_change |-> PctChange(close),
                     price_change_abs |-> Diff(close)]
         IN  ToRecords(out, Len(rows))

\* Series.rolling(window).max() and .min()
RECURSIVE MaxSeq(_)
MaxSeq(xs) ==
    IF Len(xs) = 1 THEN xs[1]
    ELSE LET m == MaxSeq(Tail(xs)) IN IF Gt(m, Head(xs)) THEN m ELSE Head(xs)

RECURSIVE MinSeq(_)
MinSeq(xs) ==
    IF Len(xs) = 1 THEN xs[1]
    ELSE LET m == MinSeq(Tail(xs)) IN IF Lt(m, Head(xs)) THEN m ELSE Head(xs)

RollingMax(col, window) == Rolling(col, window, MaxSeq)

RollingMin(col, window) == Rolling(col, window, MinSeq)

\* Series.unique(): the values in order of first appearance
RECURSIVE Unique(_)
Unique(xs) ==
    IF xs = <<>> THEN <<>>
    ELSE LET front == SubSeq(xs, 1, Len(xs) - 1)
             last == xs[Len(xs)]
         IN  IF \E k \in 1..Len(front) : front[k] = last
             THEN Unique(front)
             ELSE Append(Unique(front), last)

\* highs[highs > current_price], lows[lows < current_price]
Above(xs, price) == SelectSeq(xs, LAMBDA x : Gt(x, price))
Below(xs, price) == SelectSeq(xs, LAMBDA x : Lt(x, price))

\* mutant: the slice [-m:]
Take_last(xs, m) == SubSeq(xs, IF Len(xs) < m THEN 1 ELSE Len(xs) - m + 1, Len(xs))

\* mutant: the list without the [:m] slice
Take_all(xs, m) == xs

\* list[:m]
Take(xs, m) == SubSeq(xs, 1, IF Len(xs) < m THEN Len(xs) ELSE m)

\* mutant: Series.iloc[0]
ILocFirst(xs) == xs[1]

\* Series.iloc[-1]
ILocLast(xs) == xs[Len(xs)]

\* mutant: Series.head(m).values
HeadValues(xs, m) == SubSeq(xs, 1, IF Len(xs) > m THEN m ELSE Len(xs))

\* Series.tail(m).values
TailValues(xs, m) == SubSeq(xs, IF Len(xs) > m THEN Len(xs) - m + 1 ELSE 1, Len(xs))

\* mutant: the guard of the trend test taken for the guard of the function
TooShort_five(rows) == Len(rows) < 5

\* len(data) < 10
TooShort(rows) == Len(rows) < 10

\* mutant: the bearish test with > for >=
TrendPatterns_strict(recent_closes) ==
    IF Len(recent_closes) >= 5
    THEN IF \A i \in 1..4 : recent_closes[i] <= recent_closes[i + 1]
         THEN <<"Bullish Trend">>
         ELSE IF \A i \in 1..4 : recent_closes[i] > recent_closes[i + 1]
              THEN <<"Bearish Trend">>
              ELSE <<>>
    ELSE <<>>

\* the trend labels of lines 102-108
TrendPatterns(recent_closes) ==
    IF Len(recent_closes) >= 5
    THEN IF \A i \in 1..4 : recent_closes[i] <= recent_closes[i + 1]
         THEN <<"Bullish Trend">>
         ELSE IF \A i \in 1..4 : recent_closes[i] >= recent_closes[i + 1]
              THEN <<"Bearish Trend">>
              ELSE <<>>
    ELSE <<>>

detect_patterns(rows) ==
    IF TooShort(rows) THEN [patterns |-> <<>>]
    ELSE LET df == DataFrame(rows)
             recent_closes == TailValues(df["close"], 5)
             patterns == TrendPatterns(recent_closes)
             highs == RollingMax(Numbers(df["high"]), 5)
             lows == RollingMin(Numbers(df["low"]), 5)
             current_price == ILocLast(df["close"])
             resistance_levels == Unique(Above(highs, Num(current_price)))
             support_levels == Unique(Below(lows, Num(current_price)))
         IN  [patterns |-> patterns,
              resistance_levels |-> IF Len(resistance_levels) > 0
                                    THEN Take(resistance_levels, 3) ELSE <<>>,
              support_levels |-> IF Len(support_levels) > 0
                                 THEN Take(support_levels, 3) ELSE <<>>,
              current_price |-> current_price]

(***************************************************************************)
(* calculate_portfolio_metrics                                             *)
(***************************************************************************)
\* Python's None
None == [none |-> TRUE]

\* mutant: the percentage left as computed
Round_none(x, ndigits) == x

\* round(x, 2) of a finite x: the nearest multiple of 1/100, the even one
\* when x is halfway between two
Round(x, ndigits) ==
    LET scale == 10 ^ ndigits
        low == (x[1] * scale) \div x[2]
        rest == x[1] * scale - low * x[2]
        up == \/ 2 * rest > x[2]
              \/ (2 * rest = x[2] /\ low % 2 = 1)
    IN  Rat(IF up THEN low + 1 ELSE low, scale)

\* quantity * current_price
HoldingValue(h) == h.quantity * h.current_price

\* sum(h['quantity'] * h['current_price'] for h in holdings)
RECURSIVE SumValues(_)
SumValues(hs) ==
    IF hs = <<>> THEN 0 ELSE HoldingValue(Head(hs)) + SumValues(Tail(hs))

\* mutant: the last of the holdings of greatest value
RECURSIVE MaxByValue_last(_)
MaxByValue_last(hs) ==
    IF Len(hs) = 1 THEN hs[1]
    ELSE LET best == MaxByValue_last(SubSeq(hs, 1, Len(hs) - 1))
             last == hs[Len(hs)]
         IN  IF HoldingValue(last) >= HoldingValue(best) THEN last ELSE best

\* max(holdings, key=...): the first of the holdings of greatest value
RECURSIVE MaxByValue(_)
MaxByValue(hs) ==
    IF Len(hs) = 1 THEN hs[1]
    ELSE LET best == MaxByValue(SubSeq(hs, 1, Len(hs) - 1))
             last == hs[Len(hs)]
         IN  IF HoldingValue(last) > HoldingValue(best) THEN last ELSE best

\* mutant: the whole portfolio reported for each holding of an empty total
Percentage_full_on_zero(value, total_value) ==
    IF total_value > 0
    THEN Mul(Div(Num(value), Num(total_value)), Num(100))
    ELSE Num(100)

\* (value / total_value) * 100 if total_value > 0 else 0
Percentage(value, total_value) ==
    IF total_value > 0
    THEN Mul(Div(Num(value), Num(total_value)), Num(100))
    ELSE Num(0)

\* mutant: the breakdown in reverse order
BreakdownOf_reversed(hs, total_value) ==
    [k \in 1..Len(hs) |->
        LET holding == hs[Len(hs) + 1 - k]
            value == HoldingValue(holding)
        IN  [symbol |-> holding.symbol,
             value |-> value,
             percentage |-> Round(Percentage(value, total_value), 2)]]

\* the loop of lines 168-176
BreakdownOf(hs, total_value) ==
    [k \in 1..Len(hs) |->
        LET holding == hs[k]
            value == HoldingValue(holding)
        IN  [symbol |-> holding.symbol,
             value |-> value,
             percentage |-> Round(Percentage(value, total_value), 2)]]

calculate_portfolio_metrics(hs) ==
    LET total_value == SumValues(hs)
    IN  [total_value |-> total_value,
         total_holdings |-> Len(hs),
         largest_holding |-> IF hs # <<>> THEN MaxByValue(hs) ELSE None,
         holdings_breakdown |-> BreakdownOf(hs, total_value)]

(***************************************************************************)
(* format_currency.  A text is the sequence of its characters.  The        *)
(* amounts of the model are exact in a double or far from halfway between  *)
(* two hundredths, so that the double's rounding agrees with the exact     *)
(* one.                                                                    *)
(***************************************************************************)
Crore == 10000000
Lakh == 100000

DigitChars == <<"0", "1", "2", "3", "4", "5", "6", "7", "8", "9">>

\* the decimal digits of n >= 0
RECURSIVE Digits(_)
Digits(n) ==
    IF n < 10 THEN <<DigitChars[n + 1]>>
    ELSE Append(Digits(n \div 10), DigitChars[(n % 10) + 1])

\* the decimal digits of n >= 0 with a comma before each group of three
RECURSIVE GroupedDigits(_)
GroupedDigits(n) ==
    IF n < 1000 THEN Digits(n)
    ELSE GroupedDigits(n \div 1000) \o
         <<",", DigitChars[((n % 1000) \div 100) + 1],
                DigitChars[((n % 100) \div 10) + 1],
                DigitChars[(n % 10) + 1]>>

\* x / m for a rational x and an integer m > 0, without leaving 32 bits
DivInt(x, m) ==
    LET g == Gcd(Abs(x[1]), m)
    IN  <<x[1] \div g, x[2] * (m \div g)>>

\* x >= m for a rational x and an integer m
AtLeast(x, m) == x[1] \div x[2] >= m

\* the hundredths nearest to the rational x >= 0, as <<whole, cents>>
Hundredths(x) ==
    LET whole == x[1] \div x[2]
        rest == x[1] - whole * x[2]
        low == (rest * 100) \div x[2]
        left == rest * 100 - low * x[2]
        up == \/ 2 * left > x[2]
              \/ (2 * left = x[2] /\ low % 2 = 1)
        cents == IF up THEN low + 1 ELSE low
    IN  IF cents = 100 THEN <<whole + 1, 0>> ELSE <<whole, cents>>

\* format(x, '.2f') and format(x, ',.2f')
Fixed2(x, grouping) ==
    LET parts == Hundredths(AbsNum(x))
        whole == IF grouping THEN GroupedDigits(parts[1]) ELSE Digits(parts[1])
        sign == IF x[1] < 0 THEN <<"-">> ELSE <<>>
    IN  sign \o whole \o
        <<".", DigitChars[(parts[2] \div 10) + 1], DigitChars[(parts[2] % 10) + 1]>>

\* the characters of a currency code
Chars(code) ==
    CASE code = "INR" -> <<"I", "N", "R">>
      [] code = "USD" -> <<"U", "S", "D">>
      [] code = "EUR" -> <<"E", "U", "R">>

\* mutant: the crore threshold exclusive
IsCrore_exclusive(x) == AtLeast(x, Crore) /\ x # Num(Crore)

\* amount >= 10000000
IsCrore(x) == AtLeast(x, Crore)

\* amount >= 100000
IsLakh(x) == AtLeast(x, Lakh)

format_currency(x, code) ==
    IF code = "INR"
    THEN IF IsCrore(x)
         THEN <<"₹">> \o Fixed2(DivInt(x, Crore), FALSE) \o <<" ", "C", "r">>
         ELSE IF IsLakh(x)
              THEN <<"₹">> \o Fixed2(DivInt(x, Lakh), FALSE) \o <<" ", "L">>
              ELSE <<"₹">> \o Fixed2(x, TRUE)
    ELSE Chars(code) \o <<" ">> \o Fixed2(x, TRUE)

(***************************************************************************)
(* Inputs.  A bar list is up to MaxFree freely chosen closes with a run of *)
(* up to MaxPad identical bars before or after them, or the list of        *)
(* section 8 of the specification.  The pattern detector, which reads the  *)
(* last bars, gets two more free closes after the run.  Bars carry the     *)
(* timestamp of their position and keep low <= open, close <= high and     *)
(* volume >= 0.                                                            *)
(***************************************************************************)
MkBar(t, c) ==
    [timestamp |-> t, open |-> c, high |-> c + 1,
     low |-> IF c > 0 THEN c - 1 ELSE 0, close |-> c, volume |-> 10 * c]

BarsOf(cs) == [k \in 1..Len(cs) |-> MkBar(k, cs[k])]

FreeCloses == UNION {[1..m -> Closes] : m \in 0..MaxFree}

Run(c, m) == [k \in 1..m |-> c]

ExampleCloses == [k \in 1..10 |-> 9 + k]

InputCloses ==
    {Run(c, m) \o f : c \in Closes, m \in 0..MaxPad, f \in FreeCloses}
    \cup {f \o Run(c, m) : c \in Closes, m \in 0..MaxPad, f \in FreeCloses}
    \cup {ExampleCloses}

TailCloses == UNION {[1..m -> Closes] : m \in 0..(MaxFree + 2)}

\* ten closes falling from 19 to 10, and ten closes swinging around 15
FallingCloses == [k \in 1..10 |-> 20 - k]
SwingingCloses == [k \in 1..10 |-> IF k % 2 = 0 THEN 15 + k ELSE 15 - k]

PatternCloses ==
    {Run(c, m) \o f : c \in Closes, m \in 0..MaxPad, f \in TailCloses}
    \cup {ExampleCloses, FallingCloses, SwingingCloses}

\* a holding of the data model: quantity > 0, current_price >= 0
MkHolding(s, q, p) == [symbol |-> s, quantity |-> q, current_price |-> p]

HoldingSet == {MkHolding(s, q, p) : s \in Symbols, q \in Quantities, p \in Prices}

\* the scenario of section 8 of the specification
ExampleHoldings == <<MkHolding("A", 10, 100), MkHolding("B", 5, 200)>>

HoldingLists ==
    UNION {[1..m -> HoldingSet] : m \in 0..MaxHoldings} \cup {ExampleHoldings}

\* amounts around the two thresholds, the amounts of section 8 of the
\* specification, a negative one, two with a fraction, and a progression
\* through the three bands
Amounts ==
    {Num(n) : n \in {0, 1, 999, 1000, 1500, 99999, 100000, 100001, 150000,
                     9999999, 10000000, 10000001, 150000000, -1500}}
    \cup {<<99999999, 1000>>, <<19999999, 2>>}
    \cup {Num(AmountStep * k) : k \in 1..MaxSteps}

NotCalled == [status |-> "none"]
Returned(v) == [status |-> "returned", value |-> v]

(***************************************************************************)
(* MarketDataFetcher (src/market_data_fetcher.py).  The data provider is   *)
(* the environment: each call to it is answered by rows, by no row, or by  *)
(* an exception.  A function ends by returning a value or by raising.      *)
(***************************************************************************)
Raised(e) == [status |-> "raised", error |-> e]

\* mutant: an except clause that raises again
Except_reraise(outcome, fallback) == outcome

\* try: <outcome> except Exception: return fallback
Except(outcome, fallback) ==
    IF outcome.status = "raised" THEN Returned(fallback) ELSE outcome

\* exchange.upper()
Upper(exchange) ==
    CASE exchange = "nse" -> "NSE"
      [] exchange = "bse" -> "BSE"
      [] OTHER -> exchange

\* what ticker.history() does: rows in time order, or an exception
ProviderRows(rows) == [kind |-> "rows", rows |-> rows]
ProviderError(e) == [kind |-> "error", error |-> e]

\* the loop over hist_data.iterrows() of lines 138-150 and 179-191
HistoricalRecords(symbol, exchange, rows) ==
    [k \in 1..Len(rows) |->
        [symbol |-> symbol,
         exchange |-> exchange,
         timestamp |-> rows[k].Date,
         open |-> Round(rows[k].Open, 2),
         high |-> Round(rows[k].High, 2),
         low |-> Round(rows[k].Low, 2),
         close |-> Round(rows[k].Close, 2),
         volume |-> rows[k].Volume,
         ltp |-> Round(rows[k].Close, 2)]]

_get_nse_historical_data(symbol, provider) ==
    Except(IF provider.kind = "error" THEN Raised(provider.error)
           ELSE Returned(HistoricalRecords(symbol, "NSE", provider.rows)),
           <<>>)

_get_bse_historical_data(symbol, provider) ==
    Except(IF provider.kind = "error" THEN Raised(provider.error)
           ELSE Returned(HistoricalRecords(symbol, "BSE", provider.rows)),
           <<>>)

get_historical_data(symbol, exchange, provider) ==
    Except(IF Upper(exchange) = "NSE"
           THEN _get_nse_historical_data(symbol, provider)
           ELSE IF Upper(exchange) = "BSE"
                THEN _get_bse_historical_data(symbol, provider)
                ELSE Raised("ValueError"),
           <<>>)

\* provider rows: prices with three decimals, dated by their position
ProviderRow(k, p, v) ==
    [Date |-> k, Open |-> p, High |-> p, Low |-> p, Close |-> p, Volume |-> v]

RowLists ==
    UNION {{[k \in 1..m |-> ProviderRow(k, ps[k], vs[k])] :
               ps \in [1..m -> ProviderPrices], vs \in [1..m -> ProviderVolumes]} :
           m \in 0..MaxRows}

HistoryAnswers ==
    {ProviderRows(rows) : rows \in RowLists} \cup {ProviderError("ConnectionError")}

\* DataProcessor and MarketDataFetcher at rest
ProcessorIdle ==
    /\ data = BarsOf(ExampleCloses)
    /\ ind_ret = NotCalled
    /\ pat_ret = NotCalled
    /\ holdings = ExampleHoldings
    /\ port_ret = NotCalled
    /\ amount = Num(1500)
    /\ currency = "INR"
    /\ fmt_ret = NotCalled

HistIdle ==
    /\ hist_req = [symbol |-> "A", exchange |-> "NSE", provider |-> ProviderRows(<<>>)]
    /\ hist_ret = NotCalled

Min(a, b) == IF a < b THEN a ELSE b
Max(a, b) == IF a > b THEN a ELSE b

\* dict[key] = value
Store(dict, key, value) == [k \in DOMAIN dict \cup {key} |-> IF k = key THEN value ELSE dict[k]]

(***************************************************************************)
(* download_stock_data: one step per pass of the retry loop.               *)
(***************************************************************************)
max_retries == 3
retry_delay == 2

\* "Too Many Requests" in str(e)
IsTooManyRequests(message) == message = "Too Many Requests"

\* mutant: every error is retried while passes are left
ShouldRetry_any_error(message, attempt) == attempt < max_retries - 1

\* "Too Many Requests" in str(e) and retry < max_retries - 1
ShouldRetry(message, attempt) ==
    IsTooManyRequests(message) /\ attempt < max_retries - 1

\* retry_delay * (2 ** retry)
WaitTime(delay, attempt) == delay * (2 ^ attempt)

\* the metadata columns and the rounding of lines 530-543
WithMetadata(rows, symbol, exchange) ==
    [k \in 1..Len(rows) |->
        [Close |-> Round(rows[k].Close, 2),
         Symbol |-> symbol,
         Exchange |-> Upper(exchange)]]

\* the extension _save_data_to_file gives the file
FileExtension(file_format) ==
    CASE file_format = "csv" -> ".csv"
      [] file_format = "json" -> ".json"
      [] file_format = "excel" -> ".xlsx"
      [] OTHER -> ".csv"

\* what ticker.history() answers to download_stock_data
DownloadTables == {<<[Close |-> p]>> : p \in ProviderPrices}
DownloadAnswers ==
    {ProviderRows(t) : t \in DownloadTables}
    \cup {ProviderRows(<<>>)}
    \cup {ProviderError(m) : m \in ErrorMessages}

DownloadIdle ==
    /\ dl_req = [symbol |-> "A", exchange |-> "NSE", save_to_file |-> TRUE,
                 file_format |-> "csv"]
    /\ dl_pc = "idle"
    /\ retry = 0
    /\ provider_calls = 0
    /\ answers = <<>>
    /\ waited = <<>>
    /\ dl_ret = NotCalled
    /\ saved = <<>>

\* one pass of the loop of lines 521-559, with the except of line 563
DownloadAttempt ==
    /\ dl_pc = "fetching"
    /\ retry < max_retries
    /\ \E answer \in DownloadAnswers, written \in BOOLEAN :
          /\ provider_calls' = provider_calls + 1
          /\ answers' = Append(answers, answer)
          /\ IF answer.kind = "error" /\ ShouldRetry(answer.error, retry)
             THEN /\ waited' = Append(waited, WaitTime(retry_delay, retry))
                  /\ retry' = retry + 1
                  /\ UNCHANGED <<dl_pc, dl_ret, saved>>
             ELSE /\ dl_pc' = "done"
                  /\ dl_ret' =
                        Except(IF answer.kind = "error" THEN Raised(answer.error)
                               ELSE Returned(WithMetadata(answer.rows, dl_req.symbol,
                                                          dl_req.exchange)),
                               <<>>)
                  /\ saved' =
                        IF /\ answer.kind = "rows"
                           /\ answer.rows # <<>>
                           /\ dl_req.save_to_file
                           /\ written
                        THEN Append(saved,
                                    [extension |-> FileExtension(dl_req.file_format),
                                     data |-> WithMetadata(answer.rows, dl_req.symbol,
                                                           dl_req.exchange)])
                        ELSE saved
                  /\ UNCHANGED <<waited, retry>>
    /\ UNCHANGED dl_req

(***************************************************************************)
(* get_symbol_info and clear_all_caches.  The age of a cache file is kept  *)
(* in hours, and cache_hours stands for that age or more.                  *)
(***************************************************************************)
cache_hours == 24

EmptyDict == <<>>

\* cache_file = f".cache_{symbol}_{exchange}.json"
CacheFile(symbol, exchange) == ".cache_" \o symbol \o "_" \o exchange \o ".json"

\* mutant: a file of exactly 24 hours still counts as valid
IsFresh_inclusive(age) == age <= cache_hours

\* datetime.now() - cache_time < timedelta(hours=24)
IsFresh(age) == age < cache_hours

\* the result of lines 637-647
SymbolInfo(symbol, exchange, info) ==
    [symbol |-> symbol,
     exchange |-> exchange,
     company_name |-> IF "longName" \in DOMAIN info THEN info.longName ELSE "N/A"]

\* what ticker.info answers
InfoAnswers ==
    {[kind |-> "info", info |-> [longName |-> n]] : n \in LongNames}
    \cup {[kind |-> "info", info |-> EmptyDict]}
    \cup {ProviderError(m) : m \in ErrorMessages}

\* the retry test of lines 659-667
InfoShouldRetry(answer, attempt) ==
    /\ answer.kind = "error"
    /\ IsTooManyRequests(answer.error)
    /\ attempt < max_retries - 1

\* the answers one run of the loop of lines 632-667 can meet
InfoRuns ==
    {run \in UNION {[1..n -> InfoAnswers] : n \in 1..max_retries} :
        /\ \A i \in 1..(Len(run) - 1) : InfoShouldRetry(run[i], i - 1)
        /\ ~InfoShouldRetry(run[Len(run)], Len(run) - 1)}

InfoIdle ==
    /\ cache_files = EmptyDict
    /\ info_req = [symbol |-> "A", exchange |-> "NSE"]
    /\ info_ret = NotCalled
    /\ info_answers = <<>>
    /\ info_op = "none"

\* get_symbol_info(symbol, exchange)
GetSymbolInfo ==
    /\ \E pair \in InfoPairs, run \in InfoRuns :
          LET symbol == pair[1]
              exchange == pair[2]
              file == CacheFile(symbol, exchange)
              last == run[Len(run)]
              result == SymbolInfo(symbol, exchange, last.info)
          IN  /\ info_req' = [symbol |-> symbol, exchange |-> exchange]
              /\ IF file \in DOMAIN cache_files /\ IsFresh(cache_files[file].age)
                 THEN /\ info_ret' = Returned(cache_files[file].data)
                      /\ info_answers' = <<>>
                      /\ cache_files' = cache_files
                 ELSE /\ info_answers' = run
                      /\ IF last.kind = "info"
                         THEN /\ cache_files' =
                                    Store(cache_files, file, [age |-> 0, data |-> result])
                              /\ info_ret' = Returned(result)
                         ELSE /\ cache_files' = cache_files
                              /\ info_ret' = Except(Raised(last.error), EmptyDict)
    /\ info_op' = "info"

\* clear_all_caches()
ClearAllCaches ==
    /\ cache_files' = EmptyDict
    /\ info_op' = "clear"
    /\ UNCHANGED <<info_req, info_ret, info_answers>>

\* hours pass
HoursPass ==
    /\ \E hours \in HoursPassing :
          cache_files' =
              [f \in DOMAIN cache_files |->
                  [age |-> Min(cache_files[f].age + hours, cache_hours),
                   data |-> cache_files[f].data]]
    /\ info_op' = "time"
    /\ UNCHANGED <<info_req, info_ret, info_answers>>

(***************************************************************************)
(* The real-time stream, _get_nse_realtime_data and its BSE twin.  Time is *)
(* kept relative to now: cache_expiry holds the seconds left (expired when *)
(* below 0, and -1 stands for any time past), last_api_call and call_age   *)
(* hold the seconds elapsed (min_api_interval stands for that or more).    *)
(* A provider call takes no time; time passes in the sleeps.               *)
(***************************************************************************)
cache_duration == 300
base_delay == 10
max_delay == 120
tick_delay == 3
min_api_interval == 30
init_delay == 2
empty_extension == 60
error_extension == 300
fallback_price == <<100, 1>>

\* the two kinds of time map, d seconds later
Later(expiry, d) == [k \in DOMAIN expiry |-> Max(expiry[k] - d, -1)]
Older(ages, d) == [k \in DOMAIN ages |-> Min(ages[k] + d, min_api_interval)]

\* "Too Many Requests" in str(api_error) or "429" in str(api_error)
IsRateLimit(message) == message \in {"Too Many Requests", "HTTP Error 429"}

\* mutant: the back-off without its cap
Backoff_uncapped(delay) == delay * 2

\* min(current_delay * 2, max_delay)
Backoff(delay) == Min(delay * 2, max_delay)

\* max(0.01, base_price + price_change)
CurrentPrice(base_price, price_change) ==
    LET moved == Add(base_price, price_change)
    IN  IF Gt(moved, <<1, 100>>) THEN moved ELSE <<1, 100>>

\* (price_change / base_price) * 100 if base_price > 0 else 0
ChangePercent(base_price, price_change) ==
    IF Gt(base_price, Num(0))
    THEN Mul(Div(price_change, base_price), Num(100))
    ELSE Num(0)

\* the base prices a stream can hold, and for each of them and each
\* price_change the computed fields of the tick, lines 334-346 and 444-456
BasePrices == StreamPrices \cup {fallback_price}
Quotes ==
    [base_price \in BasePrices, price_change \in PriceChanges |->
        [ltp |-> Round(CurrentPrice(base_price, price_change), 2),
         change |-> Round(price_change, 2),
         change_percent |-> Round(ChangePercent(base_price, price_change), 2)]]

\* the tick_data of lines 338-346 and 448-456
TickData(symbol, exchange, base_price, price_change, volume) ==
    [symbol |-> symbol,
     exchange |-> exchange,
     ltp |-> Quotes[base_price, price_change].ltp,
     volume |-> volume,
     change |-> Quotes[base_price, price_change].change,
     change_percent |-> Quotes[base_price, price_change].change_percent]

\* what a provider call of the stream is answered with
StreamAnswers ==
    {[kind |-> "data", price |-> p] : p \in StreamPrices}
    \cup {[kind |-> "empty"]}
    \cup {[kind |-> "error", error |-> m] : m \in ErrorMessages}

\* the symbol to handle, and the position after it
Symbol == symbols[stream_pos]
NextPos == IF stream_pos = Len(symbols) THEN 1 ELSE stream_pos + 1

\* lines 285-295
ShouldRefresh ==
    /\ \/ Symbol \notin DOMAIN cache
       \/ Symbol \notin DOMAIN cache_expiry
       \/ cache_expiry[Symbol] < 0
    /\ ~(Symbol \in DOMAIN last_api_call /\ last_api_call[Symbol] < min_api_interval)

\* a provider call for Symbol is made now, and d seconds pass after it
ProviderCalled(d) ==
    /\ call_gap' = IF Symbol \in DOMAIN call_age THEN <<call_age[Symbol]>> ELSE <<>>
    /\ call_age' = Older(Store(call_age, Symbol, 0), d)

NoProviderCall(d) ==
    /\ call_gap' = call_gap
    /\ call_age' = Older(call_age, d)

\* one pass of the initialisation loop, lines 256-275 and 374-391
InitialiseSymbol ==
    /\ stream_pc = "init"
    /\ \E answer \in StreamAnswers :
          LET d == IF answer.kind = "error" THEN 0 ELSE init_delay
          IN  /\ cache' = Store(cache, Symbol,
                                IF answer.kind = "data" THEN answer.price
                                ELSE fallback_price)
              /\ cache_expiry' = Later(Store(cache_expiry, Symbol, cache_duration), d)
              /\ last_api_call' =
                    Older(IF answer.kind = "data" THEN Store(last_api_call, Symbol, 0)
                          ELSE last_api_call, d)
              /\ slept' = d
              /\ ProviderCalled(d)
    /\ event' = [kind |-> "initialised", symbol |-> Symbol]
    /\ yielded' = None
    /\ stream_pc' = IF stream_pos = Len(symbols) THEN "loop" ELSE "init"
    /\ stream_pos' = NextPos
    /\ UNCHANGED <<symbols, stream_exchange, current_delay>>

\* the tail of the loop body: the tick of lines 331-349, then tick_delay
YieldTick(base_price, kind) ==
    /\ \E price_change \in PriceChanges, volume \in TickVolumes :
          yielded' = TickData(Symbol, stream_exchange, base_price, price_change, volume)
    /\ event' = [kind |-> kind, symbol |-> Symbol]
    /\ slept' = tick_delay
    /\ stream_pos' = NextPos
    /\ UNCHANGED <<symbols, stream_exchange, stream_pc>>

\* a pass of the loop body that does not call the provider
ServeCached ==
    /\ stream_pc = "loop"
    /\ ~ShouldRefresh
    /\ YieldTick(IF Symbol \in DOMAIN cache THEN cache[Symbol] ELSE fallback_price,
                 "cached")
    /\ cache_expiry' = Later(cache_expiry, tick_delay)
    /\ last_api_call' = Older(last_api_call, tick_delay)
    /\ NoProviderCall(tick_delay)
    /\ UNCHANGED <<cache, current_delay>>

\* a pass whose provider call gives a price, lines 306-312
RefreshData ==
    /\ stream_pc = "loop"
    /\ ShouldRefresh
    /\ \E price \in StreamPrices :
          /\ cache' = Store(cache, Symbol, price)
          /\ YieldTick(price, "refreshed")
    /\ cache_expiry' = Later(Store(cache_expiry, Symbol, cache_duration), tick_delay)
    /\ last_api_call' = Older(Store(last_api_call, Symbol, 0), tick_delay)
    /\ current_delay' = base_delay
    /\ ProviderCalled(tick_delay)

\* a pass whose provider call gives no row, lines 313-316
RefreshEmpty ==
    /\ stream_pc = "loop"
    /\ ShouldRefresh
    /\ YieldTick(IF Symbol \in DOMAIN cache THEN cache[Symbol] ELSE fallback_price,
                 "empty")
    /\ cache_expiry' = Later(Store(cache_expiry, Symbol, empty_extension), tick_delay)
    /\ last_api_call' = Older(last_api_call, tick_delay)
    /\ ProviderCalled(tick_delay)
    /\ UNCHANGED <<cache, current_delay>>

\* a pass whose provider call is refused for rate limiting, lines 319-325
RefreshRateLimited ==
    /\ stream_pc = "loop"
    /\ ShouldRefresh
    /\ \E message \in ErrorMessages : IsRateLimit(message)
    /\ current_delay' = Backoff(current_delay)
    /\ cache_expiry' = Later(Store(cache_expiry, Symbol, cache_duration), current_delay')
    /\ last_api_call' = Older(last_api_call, current_delay')
    /\ slept' = current_delay'
    /\ ProviderCalled(current_delay')
    /\ yielded' = None
    /\ event' = [kind |-> "rate_limited", symbol |-> Symbol]
    /\ stream_pos' = NextPos
    /\ UNCHANGED <<symbols, stream_exchange, stream_pc, cache>>

\* a pass whose provider call fails otherwise, lines 326-329
RefreshError ==
    /\ stream_pc = "loop"
    /\ ShouldRefresh
    /\ \E message \in ErrorMessages : ~IsRateLimit(message)
    /\ YieldTick(IF Symbol \in DOMAIN cache THEN cache[Symbol] ELSE fallback_price,
                 "error")
    /\ cache_expiry' = Later(Store(cache_expiry, Symbol, error_extension), tick_delay)
    /\ last_api_call' = Older(last_api_call, tick_delay)
    /\ ProviderCalled(tick_delay)
    /\ UNCHANGED <<cache, current_delay>>

StreamStep ==
    \/ InitialiseSymbol
    \/ ServeCached
    \/ RefreshData
    \/ RefreshEmpty
    \/ RefreshRateLimited
    \/ RefreshError

\* symbol lists: one name, the name twice, and MaxSymbols names
SymbolNames == <<"A", "B", "C", "D", "E">>
SymbolLists == {<<"A">>, <<"A", "A">>}
ManySymbols == SubSeq(SymbolNames, 1, MaxSymbols)

NoEntry == [k \in {} |-> 0]

StreamIdle ==
    /\ symbols = <<"A">>
    /\ stream_exchange = "NSE"
    /\ stream_pc = "init"
    /\ stream_pos = 1
    /\ cache = NoEntry
    /\ cache_expiry = NoEntry
    /\ last_api_call = NoEntry
    /\ current_delay = base_delay
    /\ yielded = None
    /\ event = [kind |-> "started", symbol |-> ""]
    /\ slept = 0
    /\ call_age = NoEntry
    /\ call_gap = <<>>

StreamStart(lists) ==
    /\ ProcessorIdle
    /\ HistIdle
    /\ DownloadIdle
    /\ InfoIdle
    /\ symbols \in lists
    /\ stream_exchange \in {"NSE", "BSE"}
    /\ stream_pc = "init"
    /\ stream_pos = 1
    /\ cache = NoEntry
    /\ cache_expiry = NoEntry
    /\ last_api_call = NoEntry
    /\ current_delay = base_delay
    /\ yielded = None
    /\ event = [kind |-> "started", symbol |-> ""]
    /\ slept = 0
    /\ call_age = NoEntry
    /\ call_gap = <<>>

InitStream == StreamStart(SymbolLists)

Stream == StreamStep /\ UNCHANGED <<processorVars, histVars, downloadVars, infoVars>>

SpecStream == InitStream /\ [][Stream]_vars

\* The stream of MaxSymbols symbols while the provider refuses every call of
\* the while loop for rate limiting, with a consumer that keeps iterating.
InitOutage == StreamStart({ManySymbols})
OutageStep ==
    \/ InitialiseSymbol
    \/ ServeCached
    \/ RefreshRateLimited
Outage == OutageStep /\ UNCHANGED <<processorVars, histVars, downloadVars, infoVars>>
SpecOutage == InitOutage /\ [][Outage]_vars /\ WF_vars(Outage)

InitDownload ==
    /\ ProcessorIdle
    /\ HistIdle
    /\ StreamIdle
    /\ InfoIdle
    /\ dl_req \in [symbol : Tickers, exchange : {"NSE", "bse"},
                   save_to_file : BOOLEAN, file_format : FileFormats]
    /\ dl_pc = "fetching"
    /\ retry = 0
    /\ provider_calls = 0
    /\ answers = <<>>
    /\ waited = <<>>
    /\ dl_ret = NotCalled
    /\ saved = <<>>

Download ==
    DownloadAttempt /\ UNCHANGED <<processorVars, histVars, streamVars, infoVars>>

SpecDownload == InitDownload /\ [][Download]_vars

InitInfo ==
    /\ ProcessorIdle
    /\ HistIdle
    /\ StreamIdle
    /\ DownloadIdle
    /\ InfoIdle

SymbolInfoStep ==
    \/ GetSymbolInfo
    \/ ClearAllCaches
    \/ HoursPass

Info == SymbolInfoStep /\ UNCHANGED <<processorVars, histVars, streamVars, downloadVars>>

SpecInfo == InitInfo /\ [][Info]_vars

FetcherIdle == HistIdle /\ StreamIdle /\ DownloadIdle /\ InfoIdle

InitHistorical ==
    /\ ProcessorIdle
    /\ StreamIdle
    /\ DownloadIdle
    /\ InfoIdle
    /\ hist_req \in [symbol : Tickers, exchange : Exchanges, provider : HistoryAnswers]
    /\ hist_ret = NotCalled

GetHistoricalData ==
    /\ hist_ret = NotCalled
    /\ hist_ret' = get_historical_data(hist_req.symbol, hist_req.exchange,
                                       hist_req.provider)
    /\ UNCHANGED <<processorVars, hist_req, streamVars, downloadVars, infoVars>>

SpecHistorical == InitHistorical /\ [][GetHistoricalData]_vars

Init ==
    /\ data \in {BarsOf(cs) : cs \in InputCloses}
    /\ ind_ret = NotCalled
    /\ pat_ret = NotCalled
    /\ holdings = ExampleHoldings
    /\ port_ret = NotCalled
    /\ amount = Num(1500)
    /\ currency = "INR"
    /\ fmt_ret = NotCalled
    /\ FetcherIdle

InitPatterns ==
    /\ data \in {BarsOf(cs) : cs \in PatternCloses}
    /\ ind_ret = NotCalled
    /\ pat_ret = NotCalled
    /\ holdings = ExampleHoldings
    /\ port_ret = NotCalled
    /\ amount = Num(1500)
    /\ currency = "INR"
    /\ fmt_ret = NotCalled
    /\ FetcherIdle

\* inputs of a caller that uses the three functions one after the other
CallerCloses == {Run(1, m) \o f : m \in {0, 10}, f \in FreeCloses}
CallerHoldings == {<<>>, <<MkHolding("A", 1, 0)>>, ExampleHoldings}

InitCalls ==
    /\ data \in {BarsOf(cs) : cs \in CallerCloses}
    /\ ind_ret = NotCalled
    /\ pat_ret = NotCalled
    /\ holdings \in CallerHoldings
    /\ port_ret = NotCalled
    /\ amount = Num(1500)
    /\ currency = "INR"
    /\ fmt_ret = NotCalled
    /\ FetcherIdle

InitFormat ==
    /\ data = BarsOf(ExampleCloses)
    /\ ind_ret = NotCalled
    /\ pat_ret = NotCalled
    /\ holdings = ExampleHoldings
    /\ port_ret = NotCalled
    /\ amount \in Amounts
    /\ currency \in Currencies
    /\ fmt_ret = NotCalled
    /\ FetcherIdle

InitPortfolio ==
    /\ data = BarsOf(ExampleCloses)
    /\ ind_ret = NotCalled
    /\ pat_ret = NotCalled
    /\ holdings \in HoldingLists
    /\ port_ret = NotCalled
    /\ amount = Num(1500)
    /\ currency = "INR"
    /\ fmt_ret = NotCalled
    /\ FetcherIdle

\* mutant: a derived field written into each record of the caller's list
CallerList_annotated(rows) == [k \in 1..Len(rows) |-> rows[k] @@ [derived |-> 0]]

\* the caller's list after a call: pd.DataFrame(data) and the loops over the
\* holdings read the records and assign to none of them
CallerList(rows) == rows

CalcIndicators ==
    /\ ind_ret = NotCalled
    /\ ind_ret' = Returned(calculate_technical_indicators(data))
    /\ data' = CallerList(data)
    /\ UNCHANGED <<pat_ret, holdings, port_ret, amount, currency, fmt_ret>>
    /\ UNCHANGED fetcherVars

DetectPatterns ==
    /\ pat_ret = NotCalled
    /\ pat_ret' = Returned(detect_patterns(data))
    /\ data' = CallerList(data)
    /\ UNCHANGED <<ind_ret, holdings, port_ret, amount, currency, fmt_ret>>
    /\ UNCHANGED fetcherVars

PortfolioMetrics ==
    /\ port_ret = NotCalled
    /\ port_ret' = Returned(calculate_portfolio_metrics(holdings))
    /\ holdings' = CallerList(holdings)
    /\ UNCHANGED <<data, ind_ret, pat_ret, amount, currency, fmt_ret>>
    /\ UNCHANGED fetcherVars

FormatCurrency ==
    /\ fmt_ret = NotCalled
    /\ fmt_ret' = Returned(format_currency(amount, currency))
    /\ UNCHANGED <<data, ind_ret, pat_ret, holdings, port_ret, amount, currency>>
    /\ UNCHANGED fetcherVars

Next ==
    \/ CalcIndicators
    \/ DetectPatterns
    \/ PortfolioMetrics
    \/ FormatCurrency
    \/ GetHistoricalData
    \/ Stream
    \/ Download
    \/ Info

Spec == Init /\ [][Next]_vars

\* the indicator engine alone, and the pattern detector alone
SpecIndicators == Init /\ [][CalcIndicators]_vars
SpecPatterns == InitPatterns /\ [][DetectPatterns]_vars
\* the portfolio aggregator alone
SpecPortfolio == InitPortfolio /\ [][PortfolioMetrics]_vars
\* the three functions that take a list, called in any order
Calls ==
    \/ CalcIndicators
    \/ DetectPatterns
    \/ PortfolioMetrics
SpecCalls == InitCalls /\ [][Calls]_vars
\* the report formatter alone
SpecFormat == InitFormat /\ [][FormatCurrency]_vars

(***************************************************************************)
(* What the claims read.                                                   *)
(***************************************************************************)
IndReturned == ind_ret.status = "returned"
PatReturned == pat_ret.status = "returned"
N == Len(data)
Rows == ind_ret.value
CloseAt(k) == data[k].close

\* sum of the closes at TLA+ indices a..b, in integers
RECURSIVE CloseSum(_, _)
CloseSum(a, b) == IF a > b THEN 0 ELSE CloseAt(a) + CloseSum(a + 1, b)

SmaField(p) == CASE p = 5 -> "sma_5" [] p = 10 -> "sma_10" [] p = 20 -> "sma_20"

(***************************************************************************)
(* C1.  For each period p in {5, 10, 20} the sma_p value at index i is the *)
(* arithmetic mean of closes i-p+1..i when i >= p-1 and undefined when     *)
(* i < p-1; closes 10..19 give sma_5 = 17 at index 9 and undefined at      *)
(* index 3.                                                                *)
(***************************************************************************)
C1_SmaIsWindowMean ==
    IndReturned =>
        /\ \A p \in {5, 10, 20} : \A k \in 1..N :
              LET v == Rows[k][SmaField(p)]
              IN  IF k >= p
                  THEN IsRat(v) /\ v[1] * p = v[2] * CloseSum(k - p + 1, k)
                  ELSE IsNaN(v)
        /\ data = BarsOf(ExampleCloses) =>
              Rows[10].sma_5 = Num(17) /\ IsNaN(Rows[4].sma_5)

\* the example of the specification has been annotated
C1_Witness ==
    /\ IndReturned
    /\ data = BarsOf(ExampleCloses)
    /\ Rows[10].sma_5 = Num(17)
    /\ IsNaN(Rows[4].sma_5)

(***************************************************************************)
(* C2.  As claimed: for each span s in {12, 26}, EMA[0] = close[0] and     *)
(* EMA[i] = a*close[i] + (1-a)*EMA[i-1] for i >= 1, a = 2/(s+1); the same  *)
(* recursion with s = 9 relates macd_signal to macd.  Stated wherever the  *)
(* numbers are tracked.                                                    *)
(***************************************************************************)
Recursion(col, xs, span, k) ==
    LET a == Rat(2, span + 1)
        rhs == Add(Mul(a, xs[k]), Mul(Sub(Num(1), a), col[k - 1]))
    IN  ~IsWide(col[k]) /\ ~IsWide(col[k - 1]) /\ IsRat(rhs) => col[k] = rhs

OutColumn(field) == [k \in 1..N |-> Rows[k][field]]
CloseColumn == [k \in 1..N |-> Num(CloseAt(k))]

C2_EmaRecursion ==
    IndReturned /\ N > 0 =>
        /\ Rows[1].ema_12 = Num(CloseAt(1))
        /\ Rows[1].ema_26 = Num(CloseAt(1))
        /\ Rows[1].macd_signal = Rows[1].macd
        /\ Force([close |-> CloseColumn, ema_12 |-> OutColumn("ema_12"),
                  ema_26 |-> OutColumn("ema_26"), macd |-> OutColumn("macd"),
                  macd_signal |-> OutColumn("macd_signal")],
                 LAMBDA c : \A k \in 2..N :
                    /\ Recursion(c.ema_12, c.close, 12, k)
                    /\ Recursion(c.ema_26, c.close, 26, k)
                    /\ Recursion(c.macd_signal, c.macd, 9, k))

(***************************************************************************)
(* C2, amended.  EMA[0] = close[0] and, for i >= 1, EMA[i] is the weighted *)
(* mean of close[0..i] with weight (1-a)^(i-j) on close[j], a = 2/(s+1):   *)
(* EMA[i] * sum_j (1-a)^(i-j) = sum_j (1-a)^(i-j) * close[j].  The same    *)
(* weighted mean with s = 9 relates macd_signal to macd.  Every value is   *)
(* finite, and the equation is stated wherever the numbers are tracked.    *)
(***************************************************************************)
RECURSIVE Pow(_, _)
Pow(x, e) == IF e = 0 THEN Num(1) ELSE Mul(x, Pow(x, e - 1))

WeightSum(span, k) ==
    SumSeq([j \in 1..k |-> Pow(Sub(Num(1), Rat(2, span + 1)), k - j)])
WeightedSum(xs, span, k) ==
    SumSeq([j \in 1..k |-> Mul(Pow(Sub(Num(1), Rat(2, span + 1)), k - j), xs[j])])

WeightedMean(col, xs, span, k) ==
    /\ IsFinite(col[k])
    /\ ~IsWide(col[k]) =>
          Force(<<Mul(col[k], WeightSum(span, k)), WeightedSum(xs, span, k)>>,
                LAMBDA e : IsRat(e[1]) /\ IsRat(e[2]) => e[1] = e[2])

C2_EmaAdjustedWeights ==
    IndReturned /\ N > 0 =>
        /\ Rows[1].ema_12 = Num(CloseAt(1))
        /\ Rows[1].ema_26 = Num(CloseAt(1))
        /\ Rows[1].macd_signal = Rows[1].macd
        /\ Force([close |-> CloseColumn, ema_12 |-> OutColumn("ema_12"),
                  ema_26 |-> OutColumn("ema_26"), macd |-> OutColumn("macd"),
                  macd_signal |-> OutColumn("macd_signal")],
                 LAMBDA c : \A k \in 2..N :
                    /\ WeightedMean(c.ema_12, c.close, 12, k)
                    /\ WeightedMean(c.ema_26, c.close, 26, k)
                    /\ WeightedMean(c.macd_signal, c.macd, 9, k))

\* at index 1 the close has moved, the three columns are tracked, and the
\* weighted means differ from what the recursion would give
C2_Witness ==
    /\ IndReturned
    /\ N >= 3
    /\ CloseAt(2) # CloseAt(1)
    /\ IsRat(Rows[2].ema_12) /\ IsRat(Rows[2].ema_26) /\ IsRat(Rows[2].macd_signal)
    /\ IsRat(Rows[3].ema_12) /\ IsRat(Rows[3].ema_26)
    /\ Rows[2].macd # Num(0)
    /\ IsRat(Mul(Rows[2].macd_signal, WeightSum(9, 2)))
    /\ IsRat(Mul(Rows[3].ema_26, WeightSum(26, 3)))

(***************************************************************************)
(* C3.  At every index whose 14 close-to-close changes show no loss,       *)
(* including a window of equal closes, rsi is exactly 100.                 *)
(***************************************************************************)
NoLossBefore(k) == \A j \in (k - 13)..k : CloseAt(j) >= CloseAt(j - 1)

C3_NoLossGives100 ==
    IndReturned =>
        \A k \in 15..N : NoLossBefore(k) => Rows[k].rsi = Num(100)

(***************************************************************************)
(* C4.  rsi is undefined at each of the first 14 indices, 0..13.           *)
(***************************************************************************)
C4_RsiUndefinedFirstP ==
    IndReturned =>
        \A k \in 1..N : k <= 14 => IsNaN(Rows[k].rsi)

(***************************************************************************)
(* C5.  As claimed: at every index i >= 19, bb_upper - bb_middle is twice  *)
(* the population standard deviation of closes i-19..i, that is            *)
(* (bb_upper - bb_middle)^2 = 4 * (sum of squared deviations) / 20.        *)
(***************************************************************************)
\* 20^2 times the sum of the squared deviations of the closes at k-19..k
\* from their mean, in integers
RECURSIVE ScaledSqDev(_, _, _)
ScaledSqDev(a, b, total) ==
    IF a > b THEN 0
    ELSE (20 * CloseAt(a) - total) * (20 * CloseAt(a) - total)
         + ScaledSqDev(a + 1, b, total)

WindowSqDev(k) ==
    ScaledSqDev(k - 19, k, CloseSum(k - 19, k))

\* bb_upper = bb_middle + c*sqrt(rad) with c >= 0 and c^2 * rad = 4 * ssd / divisor
UpperBandIs(k, divisor) ==
    LET upper == Rows[k].bb_upper
    IN  /\ upper.base = Rows[k].bb_middle
        /\ upper.k >= 0
        /\ Mul(Num(upper.k * upper.k), upper.rad)
              = Rat(4 * WindowSqDev(k), 20 * 20 * divisor)

C5_BbPopulationStd ==
    IndReturned => \A k \in 20..N : UpperBandIs(k, 20)

(***************************************************************************)
(* C5, amended.  At every index i >= 19, bb_upper - bb_middle is twice the *)
(* sample standard deviation (divisor p-1 = 19) of closes i-19..i, that is *)
(* (bb_upper - bb_middle)^2 = 4 * (sum of squared deviations) / 19.        *)
(***************************************************************************)
C5_BbSampleStd ==
    IndReturned => \A k \in 20..N : UpperBandIs(k, 19)

\* a full 20-bar window whose closes are not all equal
C5_Witness ==
    /\ IndReturned
    /\ N >= 20
    /\ WindowSqDev(N) > 0
    /\ Rows[N].bb_upper.rad # Num(0)

(***************************************************************************)
(* C6.  price_change is undefined at index 0 and wherever the previous     *)
(* close is 0, never infinite; elsewhere it is                             *)
(* (close[i]-close[i-1])/close[i-1]; price_change_abs[i] is                *)
(* close[i]-close[i-1] for i >= 1.                                         *)
(***************************************************************************)
C6_PriceChange ==
    IndReturned =>
        \A k \in 1..N :
            /\ IF k = 1 \/ (k > 1 /\ CloseAt(k - 1) = 0)
               THEN IsNaN(Rows[k].price_change)
               ELSE Rows[k].price_change
                       = Rat(CloseAt(k) - CloseAt(k - 1), CloseAt(k - 1))
            /\ k >= 2 => Rows[k].price_change_abs = Num(CloseAt(k) - CloseAt(k - 1))

(***************************************************************************)
(* C7.  As claimed: with n >= 10 bars, patterns contains 'Bearish Trend'   *)
(* whenever each of the last 5 closes is >= the next one, the last 5       *)
(* closes all equal included.                                              *)
(***************************************************************************)
Found == pat_ret.value
HasPattern(label) == \E i \in 1..Len(Found.patterns) : Found.patterns[i] = label
TailNonIncreasing == \A j \in (N - 4)..(N - 1) : CloseAt(j) >= CloseAt(j + 1)
TailNonDecreasing == \A j \in (N - 4)..(N - 1) : CloseAt(j) <= CloseAt(j + 1)

C7_BearishOnNonIncreasing ==
    PatReturned /\ N >= 10 /\ TailNonIncreasing => HasPattern("Bearish Trend")

(***************************************************************************)
(* C7, amended.  With n >= 10 bars, patterns contains 'Bearish Trend'      *)
(* whenever each of the last 5 closes is >= the next one and the last 5    *)
(* closes are not all equal; when they are all equal it contains 'Bullish  *)
(* Trend' and not 'Bearish Trend'.                                         *)
(***************************************************************************)
C7_BearishUnlessFlat ==
    PatReturned /\ N >= 10 /\ TailNonIncreasing =>
        IF TailNonDecreasing
        THEN Found.patterns = <<"Bullish Trend">>
        ELSE HasPattern("Bearish Trend")

\* the last 5 closes fall, with two of them equal
C7_Witness ==
    /\ PatReturned
    /\ N >= 10
    /\ TailNonIncreasing
    /\ ~TailNonDecreasing
    /\ \E j \in (N - 4)..(N - 1) : CloseAt(j) = CloseAt(j + 1)
    /\ HasPattern("Bearish Trend")

(***************************************************************************)
(* C8.  With n >= 10 bars, patterns contains 'Bullish Trend' if and only   *)
(* if each of the closes at indices n-5..n-2 is <= its successor, whatever *)
(* the earlier bars are; ten strictly increasing closes give 'Bullish      *)
(* Trend'; no label is emitted when the last 5 closes are neither          *)
(* non-decreasing nor non-increasing.                                      *)
(***************************************************************************)
C8_BullishIffNonDecreasing ==
    PatReturned /\ N >= 10 =>
        /\ HasPattern("Bullish Trend") <=> TailNonDecreasing
        /\ ~TailNonDecreasing /\ ~TailNonIncreasing => Found.patterns = <<>>
        /\ data = BarsOf(ExampleCloses) => HasPattern("Bullish Trend")

\* a series that falls before its last 5 closes and rises over them
C8_Witness ==
    /\ PatReturned
    /\ N >= 10
    /\ CloseAt(N - 5) > CloseAt(N - 4)
    /\ CloseAt(N - 4) < CloseAt(N)
    /\ TailNonDecreasing
    /\ HasPattern("Bullish Trend")

(***************************************************************************)
(* C9.  With fewer than 10 bars, the empty series and series whose last 5  *)
(* closes are monotone included, detect_patterns returns an empty patterns *)
(* list and no trend label, support level or resistance level.             *)
(***************************************************************************)
C9_ShortSeriesEmpty ==
    PatReturned /\ N < 10 =>
        /\ Found.patterns = <<>>
        /\ \A f \in {"resistance_levels", "support_levels"} :
              f \in DOMAIN Found => Found[f] = <<>>

\* nine bars whose last 5 closes rise
C9_Witness ==
    /\ PatReturned
    /\ N = 9
    /\ TailNonDecreasing
    /\ CloseAt(N - 1) < CloseAt(N)
    /\ Found.patterns = <<>>

(***************************************************************************)
(* C10.  As claimed: every result of detect_patterns, for n < 10 too, has  *)
(* the four fields patterns, resistance_levels, support_levels and         *)
(* current_price, with current_price the close of the last bar.            *)
(***************************************************************************)
ResultFields == {"patterns", "resistance_levels", "support_levels", "current_price"}

C10_FourFieldsAlways ==
    PatReturned =>
        /\ ResultFields \subseteq DOMAIN Found
        /\ N > 0 => Found.current_price = CloseAt(N)

(***************************************************************************)
(* C10, amended.  Every result of detect_patterns for n >= 10 has the four *)
(* fields patterns, resistance_levels, support_levels and current_price,   *)
(* with current_price the close of the last bar; for n < 10 the result has *)
(* the field patterns alone.                                               *)
(***************************************************************************)
C10_FourFieldsFromTenBars ==
    PatReturned =>
        IF N >= 10
        THEN DOMAIN Found = ResultFields /\ Found.current_price = CloseAt(N)
        ELSE DOMAIN Found = {"patterns"}

\* a result for at least 10 bars whose last close differs from the first
C10_Witness ==
    /\ PatReturned
    /\ N >= 10
    /\ CloseAt(N) # CloseAt(1)
    /\ Found.current_price = CloseAt(N)

(***************************************************************************)
(* C11.  With n >= 10 bars, resistance_levels holds at most 3 pairwise     *)
(* distinct values, each the maximum high of a full 5-bar window and       *)
(* strictly above the last close; support_levels holds at most 3 pairwise  *)
(* distinct values, each the minimum low of a full 5-bar window and        *)
(* strictly below the last close; a list is empty exactly when there is no *)
(* such candidate.                                                         *)
(***************************************************************************)
LastClose == data[N].close

\* the highest high and the lowest low of the 5 bars ending at TLA+ index k
WindowHigh(k) ==
    CHOOSE h \in {data[j].high : j \in (k - 4)..k} :
        \A j \in (k - 4)..k : data[j].high <= h
WindowLow(k) ==
    CHOOSE l \in {data[j].low : j \in (k - 4)..k} :
        \A j \in (k - 4)..k : data[j].low >= l

ResistanceCandidates == {h \in {WindowHigh(k) : k \in 5..N} : h > LastClose}
SupportCandidates == {l \in {WindowLow(k) : k \in 5..N} : l < LastClose}

PairwiseDistinct(xs) == \A i, j \in 1..Len(xs) : i # j => xs[i] # xs[j]

LevelsFrom(levels, candidates) ==
    /\ Len(levels) <= 3
    /\ PairwiseDistinct(levels)
    /\ \A i \in 1..Len(levels) : \E c \in candidates : levels[i] = Num(c)
    /\ (levels = <<>>) <=> (candidates = {})

C11_LevelsAreWindowExtremes ==
    (PatReturned /\ N >= 10) =>
        /\ LevelsFrom(pat_ret.value.resistance_levels, ResistanceCandidates)
        /\ LevelsFrom(pat_ret.value.support_levels, SupportCandidates)

\* six support candidates cut to the first three, one resistance candidate
C11_Witness ==
    /\ PatReturned
    /\ data = BarsOf(ExampleCloses)
    /\ Cardinality(SupportCandidates) = 6
    /\ pat_ret.value.support_levels = <<Num(9), Num(10), Num(11)>>
    /\ pat_ret.value.resistance_levels = <<Num(20)>>

(***************************************************************************)
(* What the portfolio claims read.                                         *)
(***************************************************************************)
PortReturned == port_ret.status = "returned"
Metrics == port_ret.value
Breakdown == port_ret.value.holdings_breakdown
ValueAt(k) == holdings[k].quantity * holdings[k].current_price

RECURSIVE ValueSum(_)
ValueSum(k) == IF k = 0 THEN 0 ELSE ValueAt(k) + ValueSum(k - 1)

TotalValue == ValueSum(Len(holdings))

RECURSIVE PercentageSum(_)
PercentageSum(k) ==
    IF k = 0 THEN Num(0) ELSE Add(Breakdown[k].percentage, PercentageSum(k - 1))

C13_TotalsAndBreakdown ==
    PortReturned =>
        /\ Metrics.total_value = TotalValue
        /\ Metrics.total_holdings = Len(holdings)
        /\ Len(Breakdown) = Len(holdings)
        /\ \A k \in 1..Len(holdings) :
              /\ Breakdown[k].symbol = holdings[k].symbol
              /\ Breakdown[k].value = ValueAt(k)

\* holdings of different symbols and values, in an order the breakdown keeps
C13_Witness ==
    /\ PortReturned
    /\ Len(holdings) = 3
    /\ holdings[1].symbol # holdings[3].symbol
    /\ ValueAt(1) > ValueAt(2)
    /\ ValueAt(2) > ValueAt(3)
    /\ Breakdown[1].value = ValueAt(1)
    /\ Breakdown[3].symbol = holdings[3].symbol

(***************************************************************************)
(* C14.  When total_value is 0 (every price is 0, or there is no holding)  *)
(* the call returns, every percentage of holdings_breakdown is 0, and for  *)
(* the empty list largest_holding is None and the breakdown is empty.      *)
(***************************************************************************)
C14_ZeroTotal ==
    (PortReturned /\ TotalValue = 0) =>
        /\ \A k \in 1..Len(Breakdown) : Breakdown[k].percentage = Num(0)
        /\ holdings = <<>> =>
              /\ Metrics.largest_holding = None
              /\ Breakdown = <<>>

\* two holdings priced 0 have been aggregated
C14_Witness ==
    /\ PortReturned
    /\ Len(holdings) = 2
    /\ \A k \in 1..2 : holdings[k].current_price = 0
    /\ Len(Breakdown) = 2
    /\ Breakdown[2].percentage = Num(0)

(***************************************************************************)
(* C15.  For a non-empty list, largest_holding is the holding of greatest  *)
(* quantity * current_price, the first of them in input order when several *)
(* tie; holdings A 10x100 and B 5x200 give total_value 2000, percentages   *)
(* 50 and 50, and largest_holding A.                                       *)
(***************************************************************************)
FirstLargest ==
    CHOOSE k \in 1..Len(holdings) :
        /\ \A j \in 1..Len(holdings) : ValueAt(j) <= ValueAt(k)
        /\ \A j \in 1..(k - 1) : ValueAt(j) < ValueAt(k)

C15_LargestIsFirstMaximum ==
    (PortReturned /\ holdings # <<>>) =>
        /\ Metrics.largest_holding = holdings[FirstLargest]
        /\ holdings = ExampleHoldings =>
              /\ Metrics.total_value = 2000
              /\ Breakdown[1].percentage = Num(50)
              /\ Breakdown[2].percentage = Num(50)
              /\ Metrics.largest_holding.symbol = "A"

\* the tie of the example has been broken
C15_Witness ==
    /\ PortReturned
    /\ holdings = ExampleHoldings
    /\ ValueAt(1) = ValueAt(2)
    /\ Metrics.largest_holding = holdings[1]

(***************************************************************************)
(* What the formatting claims read: the text returned, and the number a    *)
(* text of digits spells.                                                  *)
(***************************************************************************)
FmtReturned == fmt_ret.status = "returned"
Text == fmt_ret.value

IsDigit(c) == \E k \in 1..10 : DigitChars[k] = c
DigitValue(c) == (CHOOSE k \in 1..10 : DigitChars[k] = c) - 1

\* the integer spelled by digits and commas
RECURSIVE WholeValue(_)
WholeValue(chars) ==
    IF chars = <<>> THEN 0
    ELSE LET front == SubSeq(chars, 1, Len(chars) - 1)
             c == chars[Len(chars)]
         IN  IF c = "," THEN WholeValue(front)
             ELSE WholeValue(front) * 10 + DigitValue(c)

\* the text without its sign, and the digits before its decimal point
Unsigned(body) == IF body # <<>> /\ body[1] = "-" THEN Tail(body) ELSE body
WholePart(body) == SubSeq(Unsigned(body), 1, Len(Unsigned(body)) - 3)

\* digits, a point and two digits, after a minus sign exactly when negative
IsFixed2(body, negative) ==
    LET u == Unsigned(body)
        w == WholePart(body)
    IN  /\ (body # <<>> /\ body[1] = "-") <=> negative
        /\ Len(u) >= 4
        /\ u[Len(u) - 2] = "."
        /\ IsDigit(u[Len(u) - 1])
        /\ IsDigit(u[Len(u)])
        /\ \A j \in 1..Len(w) : IsDigit(w[j]) \/ w[j] = ","
        /\ w[1] = "0" => Len(w) = 1

\* no comma at all, or a comma before each group of three digits
IsPlain(body) == \A j \in 1..Len(WholePart(body)) : WholePart(body)[j] # ","
IsGrouped(body) ==
    LET w == WholePart(body)
    IN  \A j \in 1..Len(w) : (w[j] = ",") <=> ((Len(w) - j + 1) % 4 = 0)

\* the text spells, in hundredths, the number nearest to |x| / m
Spells(body, x, m) ==
    LET u == Unsigned(body)
        whole == WholeValue(WholePart(body))
        cents == DigitValue(u[Len(u) - 1]) * 10 + DigitValue(u[Len(u)])
        dm == x[2] * m
        off == (whole * dm - Abs(x[1])) * 100 + cents * dm
    IN  Abs(off) <= dm \div 2

\* the text is prefix, number, suffix
Between(text, prefix, suffix) ==
    SubSeq(text, Len(prefix) + 1, Len(text) - Len(suffix))
Framed(text, prefix, suffix) ==
    /\ Len(text) >= Len(prefix) + Len(suffix)
    /\ SubSeq(text, 1, Len(prefix)) = prefix
    /\ SubSeq(text, Len(text) - Len(suffix) + 1, Len(text)) = suffix

CroreForm ==
    /\ Framed(Text, <<"₹">>, <<" ", "C", "r">>)
    /\ LET body == Between(Text, <<"₹">>, <<" ", "C", "r">>)
       IN  IsFixed2(body, FALSE) /\ IsPlain(body) /\ Spells(body, amount, 10000000)

LakhForm ==
    /\ Framed(Text, <<"₹">>, <<" ", "L">>)
    /\ LET body == Between(Text, <<"₹">>, <<" ", "L">>)
       IN  IsFixed2(body, FALSE) /\ IsPlain(body) /\ Spells(body, amount, 100000)

GroupedForm(prefix) ==
    /\ Framed(Text, prefix, <<>>)
    /\ LET body == Between(Text, prefix, <<>>)
       IN  /\ IsFixed2(body, amount[1] < 0)
           /\ IsGrouped(body)
           /\ Spells(body, amount, 1)

\* amount >= m and amount < m, for a rational amount and an integer m
AmountAtLeast(m) == amount[1] \div amount[2] >= m
AmountBelow(m) == amount[1] \div amount[2] < m

(***************************************************************************)
(* C16.  For currency INR an amount >= 10,000,000 is rendered in the crore *)
(* form (amount/10,000,000 with suffix Cr), 100,000 <= amount < 10,000,000 *)
(* in the lakh form (amount/100,000 with suffix L) and amount < 100,000 in *)
(* the grouped-thousands form; both thresholds are inclusive; 150000000,   *)
(* 150000 and 1500 are rendered differently; any other currency code is    *)
(* rendered as the code, a space and the grouped amount whatever the       *)
(* magnitude.                                                              *)
(***************************************************************************)
C16_FormatBands ==
    FmtReturned =>
        /\ (currency = "INR" /\ AmountAtLeast(10000000)) => CroreForm
        /\ (currency = "INR" /\ AmountAtLeast(100000) /\ AmountBelow(10000000))
              => LakhForm
        /\ (currency = "INR" /\ AmountBelow(100000)) => GroupedForm(<<"₹">>)
        /\ currency # "INR" => GroupedForm(Chars(currency) \o <<" ">>)
        /\ (currency = "INR" /\ amount = Num(150000000)) =>
              Text = <<"₹", "1", "5", ".", "0", "0", " ", "C", "r">>
        /\ (currency = "INR" /\ amount = Num(150000)) =>
              Text = <<"₹", "1", ".", "5", "0", " ", "L">>
        /\ (currency = "INR" /\ amount = Num(1500)) =>
              Text = <<"₹", "1", ",", "5", "0", "0", ".", "0", "0">>

\* exactly one crore has been rendered in the crore form
C16_Witness ==
    /\ FmtReturned
    /\ currency = "INR"
    /\ amount = Num(10000000)
    /\ Text = <<"₹", "1", ".", "0", "0", " ", "C", "r">>

(***************************************************************************)
(* C17.  Every rsi value that is defined and finite in the output of       *)
(* calculate_technical_indicators lies in the closed interval [0, 100].    *)
(***************************************************************************)
C17_RsiWithinRange ==
    IndReturned =>
        \A k \in 1..N :
            LET v == Rows[k].rsi
            IN  IsFinite(v) => (IsRat(v) /\ v[1] >= 0 /\ v[1] <= 100 * v[2])

\* gains and losses in one window: an rsi strictly inside the interval
C17_Witness ==
    /\ IndReturned
    /\ \E k \in 1..N :
          /\ IsRat(Rows[k].rsi)
          /\ Rows[k].rsi[1] > 0
          /\ Rows[k].rsi[1] < 100 * Rows[k].rsi[2]

(***************************************************************************)
(* C18.  At every index bb_upper, bb_middle and bb_lower are all defined   *)
(* or all undefined; they are undefined exactly at the indices i < 19,     *)
(* where the 20-bar SMA is undefined; where defined, bb_upper >= bb_middle *)
(* >= bb_lower and bb_upper - bb_middle = bb_middle - bb_lower.            *)
(***************************************************************************)
\* a band is bb_middle + k * sqrt(rad)
BandDefined(band) == band # UndefSurd

C18_BandsOrderedAndSymmetric ==
    IndReturned =>
        \A k \in 1..N :
            LET upper == Rows[k].bb_upper
                middle == Rows[k].bb_middle
                lower == Rows[k].bb_lower
            IN  /\ BandDefined(upper) <=> ~IsNaN(middle)
                /\ BandDefined(lower) <=> ~IsNaN(middle)
                /\ IsNaN(middle) <=> k < 20
                /\ IsNaN(middle) <=> IsNaN(Rows[k].sma_20)
                /\ ~IsNaN(middle) =>
                      /\ IsRat(middle)
                      /\ upper.base = middle
                      /\ lower.base = middle
                      /\ IsRat(upper.rad) /\ upper.rad[1] >= 0
                      /\ lower.rad = upper.rad
                      /\ upper.k >= 0
                      /\ lower.k = -upper.k

\* bands undefined at index 18 and strictly apart at index 19
C18_Witness ==
    /\ IndReturned
    /\ N >= 20
    /\ ~BandDefined(Rows[19].bb_upper)
    /\ ~BandDefined(Rows[19].bb_lower)
    /\ BandDefined(Rows[20].bb_lower)
    /\ Rows[20].bb_lower.k < 0
    /\ Rows[20].bb_upper.rad[1] > 0

(***************************************************************************)
(* C19.  For a non-empty series ema_12, ema_26, macd, macd_signal and      *)
(* macd_histogram are defined at every index from 0 on, with macd = ema_12 *)
(* - ema_26 and macd_histogram = macd - macd_signal at every index.  The   *)
(* two equations are checked where the exact fractions are tracked.        *)
(***************************************************************************)
Tracked(x) == IsRat(x) /\ ~IsWide(x)

\* x - y of two tracked fractions, in lowest terms
ExactDiff(x, y) == Rat(x[1] * y[2] - y[1] * x[2], x[2] * y[2])

C19_EmaDefinedFromStart ==
    (IndReturned /\ N > 0) =>
        \A k \in 1..N :
            LET r == Rows[k]
            IN  /\ \A f \in {"ema_12", "ema_26", "macd", "macd_signal",
                            "macd_histogram"} : IsFinite(r[f])
                /\ (Tracked(r.ema_12) /\ Tracked(r.ema_26)) =>
                      r.macd = ExactDiff(r.ema_12, r.ema_26)
                /\ (Tracked(r.macd) /\ Tracked(r.macd_signal)) =>
                      r.macd_histogram = ExactDiff(r.macd, r.macd_signal)

\* a macd and a histogram that are tracked and not zero, at the second bar
C19_Witness ==
    /\ IndReturned
    /\ N >= 2
    /\ Tracked(Rows[2].macd)
    /\ Rows[2].macd[1] > 0
    /\ Tracked(Rows[2].macd_histogram)
    /\ Rows[2].macd_histogram[1] # 0
    /\ IsFinite(Rows[1].ema_26)

(***************************************************************************)
(* C20.  For a series of n bars calculate_technical_indicators returns n   *)
(* records in input order; record i keeps every field of bar i with its    *)
(* value and carries each indicator field as well; the empty series gives  *)
(* an empty series.                                                        *)
(***************************************************************************)
IndicatorFields ==
    {"sma_5", "sma_10", "sma_20", "ema_12", "ema_26", "macd", "macd_signal",
     "macd_histogram", "rsi", "bb_upper", "bb_middle", "bb_lower",
     "volume_sma", "price_change", "price_change_abs"}

C20_RecordsAligned ==
    IndReturned =>
        /\ Len(Rows) = N
        /\ N = 0 => Rows = <<>>
        /\ \A k \in 1..N :
              /\ \A f \in DOMAIN data[k] :
                    f \in DOMAIN Rows[k] /\ Rows[k][f] = data[k][f]
              /\ IndicatorFields \subseteq DOMAIN Rows[k]

\* a series whose first and last bars differ has been annotated
C20_Witness ==
    /\ IndReturned
    /\ N >= 3
    /\ data[1].close # data[N].close
    /\ Rows[1].timestamp = 1
    /\ Rows[N].timestamp = N
    /\ Rows[N].close = data[N].close

(***************************************************************************)
(* C21.  calculate_technical_indicators, detect_patterns and               *)
(* calculate_portfolio_metrics leave their input unchanged: after any      *)
(* sequence of calls the caller's list has the same length and order, and  *)
(* every input record the same fields and values, as before; no indicator  *)
(* field and no derived metric is written into a bar or a holding.         *)
(***************************************************************************)
HoldingFields == {"symbol", "quantity", "current_price"}

C21_InputsUnchanged ==
    /\ [](/\ \A k \in 1..Len(data) : DOMAIN data[k] = InputColumns
          /\ \A k \in 1..Len(holdings) : DOMAIN holdings[k] = HoldingFields)
    /\ [][data' = data /\ holdings' = holdings]_vars

\* the three functions have returned for ten bars or more and two holdings
C21_Witness ==
    /\ IndReturned
    /\ PatReturned
    /\ PortReturned
    /\ N >= 10
    /\ Len(Rows) = N
    /\ Len(holdings) = 2
    /\ Len(Breakdown) = 2

(***************************************************************************)
(* C22.  For a non-empty series of n bars, n from 1 to 19,                 *)
(* calculate_technical_indicators returns, and each windowed indicator     *)
(* whose window is longer than n (sma_5, sma_10, sma_20, volume_sma, rsi,  *)
(* the Bollinger bands) is undefined at every index, not 0 nor any other   *)
(* number.                                                                 *)
(***************************************************************************)
WindowOf(f) ==
    CASE f = "sma_5" -> 5
      [] f \in {"sma_10", "volume_sma"} -> 10
      [] f = "rsi" -> 14
      [] f \in {"sma_20", "bb_upper", "bb_middle", "bb_lower"} -> 20

WindowedFields ==
    {"sma_5", "sma_10", "volume_sma", "rsi", "sma_20", "bb_upper", "bb_middle",
     "bb_lower"}

\* the two outer bands are kept as middle + k * sqrt(rad)
Undefined(row, f) ==
    IF f \in {"bb_upper", "bb_lower"} THEN row[f] = UndefSurd ELSE row[f] = NaN

C22_ShortSeriesUndefined ==
    (IndReturned /\ N >= 1 /\ N <= 19) =>
        /\ Len(Rows) = N
        /\ \A f \in WindowedFields :
              WindowOf(f) > N => \A k \in 1..N : Undefined(Rows[k], f)

\* thirteen bars: sma_5 and sma_10 have values, rsi and the bands have none
C22_Witness ==
    /\ IndReturned
    /\ N = 13
    /\ ~Undefined(Rows[13], "sma_10")
    /\ Undefined(Rows[13], "rsi")
    /\ Undefined(Rows[13], "bb_lower")

(***************************************************************************)
(* C30.  When more than 3 distinct resistance (or support) candidates      *)
(* exist, detect_patterns reports exactly the first 3 distinct candidate   *)
(* values in the order of their first occurrence along the series, oldest  *)
(* window first, however close each value is to the current price.         *)
(***************************************************************************)
\* levels[i] is the value of the oldest window whose value is a candidate
\* and is none of levels[1..i-1]
FirstOccurrences(levels, WindowValue(_), IsCandidate(_)) ==
    \A i \in 1..Len(levels) :
        \E k \in 5..N :
            /\ IsCandidate(WindowValue(k))
            /\ levels[i] = Num(WindowValue(k))
            /\ \A h \in 1..(i - 1) : levels[h] # levels[i]
            /\ \A j \in 5..(k - 1) :
                  IsCandidate(WindowValue(j)) =>
                      \E h \in 1..(i - 1) : levels[h] = Num(WindowValue(j))

C30_FirstThreeDistinct ==
    (PatReturned /\ N >= 10) =>
        /\ Cardinality(ResistanceCandidates) > 3 =>
              /\ Len(pat_ret.value.resistance_levels) = 3
              /\ FirstOccurrences(pat_ret.value.resistance_levels, WindowHigh,
                                  LAMBDA h : h > LastClose)
        /\ Cardinality(SupportCandidates) > 3 =>
              /\ Len(pat_ret.value.support_levels) = 3
              /\ FirstOccurrences(pat_ret.value.support_levels, WindowLow,
                                  LAMBDA l : l < LastClose)

\* six resistance candidates of a falling series: the three oldest, which
\* are the three farthest from the last close, are reported
C30_Witness ==
    /\ PatReturned
    /\ data = BarsOf(FallingCloses)
    /\ Cardinality(ResistanceCandidates) = 6
    /\ pat_ret.value.resistance_levels = <<Num(20), Num(19), Num(18)>>

(***************************************************************************)
(* C23.  get_historical_data never raises to its caller: for an exchange   *)
(* name it does not support and for any failure of the data provider it    *)
(* returns the empty list; on success it returns one record per provider   *)
(* row, in the provider's time-ascending order, tagged with the requested  *)
(* symbol and with the exchange, NSE or BSE, the request names in either   *)
(* case of letters.                                                        *)
(***************************************************************************)
HistEnded == hist_ret # NotCalled
HistSupported == hist_req.exchange \in {"NSE", "nse", "BSE", "bse"}
HistExchange == IF hist_req.exchange \in {"NSE", "nse"} THEN "NSE" ELSE "BSE"

C23_HistoricalNeverRaises ==
    HistEnded =>
        /\ hist_ret.status = "returned"
        /\ (~HistSupported \/ hist_req.provider.kind = "error") =>
              hist_ret.value = <<>>
        /\ (HistSupported /\ hist_req.provider.kind = "rows") =>
              LET rows == hist_req.provider.rows
                  records == hist_ret.value
              IN  /\ Len(records) = Len(rows)
                  /\ \A k \in 1..Len(rows) :
                        /\ records[k].timestamp = rows[k].Date
                        /\ records[k].symbol = hist_req.symbol
                        /\ records[k].exchange = HistExchange
                  /\ \A j, k \in 1..Len(records) :
                        j < k => records[j].timestamp < records[k].timestamp

\* the provider failed and the caller got the empty list
C23_Witness ==
    /\ HistEnded
    /\ HistSupported
    /\ hist_req.provider.kind = "error"
    /\ hist_ret = Returned(<<>>)

(***************************************************************************)
(* C24.  Any two provider calls a real-time stream makes for the same      *)
(* symbol, the initialisation call and the later refreshes alike, are at   *)
(* least 30 seconds apart, whatever their outcome.                         *)
(***************************************************************************)
C24_CallsThirtySecondsApart ==
    \A i \in DOMAIN call_gap : call_gap[i] >= 30

(***************************************************************************)
(* C25.  Every pass of the loop body of a real-time stream yields a tick   *)
(* for the symbol of the pass, also when the provider refused the refresh  *)
(* of the pass for rate limiting.                                          *)
(***************************************************************************)
LoopKinds == {"cached", "refreshed", "empty", "rate_limited", "error"}
LoopPass == event.kind \in LoopKinds
TickFor(symbol) == yielded # None /\ yielded.symbol = symbol

C25_EveryPassYieldsTick ==
    LoopPass => TickFor(event.symbol)

(***************************************************************************)
(* C26.  The back-off delay of a real-time stream stays within 10 and 120  *)
(* seconds: a rate-limit error sets it to the smaller of twice its value   *)
(* and 120 and the stream then sleeps for the new delay, a refresh that    *)
(* gives a price sets it to 10, and no other step changes it.              *)
(***************************************************************************)
C26_DelayWithinBounds ==
    /\ [](current_delay >= 10 /\ current_delay <= 120)
    /\ [][IF event'.kind = "rate_limited"
          THEN /\ current_delay' =
                     IF 2 * current_delay < 120 THEN 2 * current_delay ELSE 120
               /\ slept' = current_delay'
          ELSE IF event'.kind = "refreshed"
          THEN current_delay' = 10
          ELSE current_delay' = current_delay]_vars

\* the delay has doubled up to its cap, and the stream slept for it
C26_Witness ==
    /\ event.kind = "rate_limited"
    /\ current_delay = 120
    /\ slept = 120
    /\ yielded = None

(***************************************************************************)
(* C27.  For a non-empty symbol list and a consumer that keeps iterating,  *)
(* a real-time stream yields a tick for every symbol again and again       *)
(* whatever the provider answers; every tick has an ltp of 0.01 or more,   *)
(* and a refresh that fails or gives no row leaves the cached base price   *)
(* as it was.                                                              *)
(***************************************************************************)
Listed(symbol) == \E i \in DOMAIN symbols : symbols[i] = symbol
AllNames == {SymbolNames[i] : i \in DOMAIN SymbolNames}

C27_EverySymbolKeepsTicking ==
    /\ \A name \in AllNames : []<>(Listed(name) => TickFor(name))
    /\ [](yielded # None => ~Lt(yielded.ltp, <<1, 100>>))
    /\ [][event'.kind \in {"empty", "rate_limited", "error"} => cache' = cache]_vars

(***************************************************************************)
(* C28.  download_stock_data calls the provider at most 3 times; a second  *)
(* or third call is made only after the call before it failed with an     *)
(* error containing 'Too Many Requests', after a wait of 2 and then of 4   *)
(* seconds; an empty answer or any other error is not retried; whenever    *)
(* the fetch fails the operation returns an empty table and does not       *)
(* raise; a file is written only after a fetch that gave rows.             *)
(***************************************************************************)
DownloadEnded == dl_pc = "done"
RateLimited(i) ==
    answers[i].kind = "error" /\ answers[i].error = "Too Many Requests"
GaveRows(i) == answers[i].kind = "rows" /\ answers[i].rows # <<>>

C28_DownloadRetries ==
    /\ provider_calls = Len(answers)
    /\ provider_calls <= 3
    /\ \A i \in 2..Len(answers) : RateLimited(i - 1)
    /\ waited = SubSeq(<<2, 4>>, 1, Len(waited))
    /\ Len(waited) = (IF DownloadEnded THEN provider_calls - 1 ELSE provider_calls)
    /\ \A i \in 1..Len(answers) :
          ~RateLimited(i) => (DownloadEnded /\ i = Len(answers))
    /\ DownloadEnded =>
          /\ dl_ret.status = "returned"
          /\ ~GaveRows(Len(answers)) => dl_ret.value = <<>>
          /\ GaveRows(Len(answers)) => Len(dl_ret.value) = Len(answers[Len(answers)].rows)
    /\ saved # <<>> =>
          /\ DownloadEnded
          /\ GaveRows(Len(answers))
          /\ dl_req.save_to_file
          /\ Len(saved) = 1
          /\ saved[1].data = dl_ret.value

\* three refusals in a row: two waits, and an empty table at the end
C28_Witness ==
    /\ DownloadEnded
    /\ provider_calls = 3
    /\ \A i \in 1..3 : RateLimited(i)
    /\ waited = <<2, 4>>
    /\ dl_ret = Returned(<<>>)
    /\ saved = <<>>

(***************************************************************************)
(* C29.  A get_symbol_info call for a (symbol, exchange) pair made less    *)
(* than 24 hours after a successful fetch for the pair, with no            *)
(* clear_all_caches in between, returns the result of that fetch and does  *)
(* not call the provider; a call made 24 hours or more after it, or the    *)
(* first call after clear_all_caches, calls the provider; a fetch that     *)
(* fails returns an empty result and leaves the cache entry as it was.     *)
(***************************************************************************)
EntryOf(request) == ".cache_" \o request.symbol \o "_" \o request.exchange \o ".json"
Cached(request) == EntryOf(request) \in DOMAIN cache_files
Entry(request) == cache_files[EntryOf(request)]
FetchSucceeded(run) == run # <<>> /\ run[Len(run)].kind = "info"

C29_SymbolInfoCache ==
    /\ [][info_op' = "clear" => DOMAIN cache_files' = {}]_vars
    /\ [][info_op' = "info" =>
            IF Cached(info_req') /\ Entry(info_req').age < 24
            THEN /\ info_answers' = <<>>
                 /\ info_ret' = Returned(Entry(info_req').data)
                 /\ cache_files' = cache_files
            ELSE /\ info_answers' # <<>>
                 /\ IF FetchSucceeded(info_answers')
                    THEN /\ info_ret'.status = "returned"
                         /\ info_ret'.value.symbol = info_req'.symbol
                         /\ info_ret'.value.exchange = info_req'.exchange
                         /\ DOMAIN cache_files' = DOMAIN cache_files \cup {EntryOf(info_req')}
                         /\ cache_files'[EntryOf(info_req')] =
                               [age |-> 0, data |-> info_ret'.value]
                         /\ \A f \in DOMAIN cache_files \ {EntryOf(info_req')} :
                               cache_files'[f] = cache_files[f]
                    ELSE /\ info_ret' = Returned(<<>>)
                         /\ cache_files' = cache_files]_vars

\* a call 16 hours after the fetch for the pair, while the file of another
\* pair is 24 hours old: answered from the file
C29_Witness ==
    /\ info_op = "info"
    /\ info_answers = <<>>
    /\ Cached(info_req)
    /\ Entry(info_req).age = 16
    /\ info_ret = Returned(Entry(info_req).data)
    /\ \E f \in DOMAIN cache_files : cache_files[f].age = 24

====
